---- MODULE Spec2Model ----
(***************************************************************************)
(* Relay control plane of Icecast's slave.c: the relay records and the     *)
(* reconciler (update_relays), the start/stop sweep (relay_check_streams,  *)
(* check_relay_stream), the supervisor (_slave_thread), the master fetch   *)
(* (streamlist_thread), the relay workers (start_relay_stream), the        *)
(* requests of other threads (slave_recheck_mounts, slave_rescan,          *)
(* slave_shutdown) and the slave host table (slave_host_add,               *)
(* slave_host_remove, slave_redirect).                                     *)
(*                                                                         *)
(* Strings that the code inspects character by character (local mounts,    *)
(* ice-redirect headers, server names) are sequences of one-character      *)
(* strings, a NULL one is <<NULL>>; strings the code only compares are     *)
(* TLA+ strings, a NULL one is the string NULL.  A NULL source_t* is       *)
(* NoSource, a NULL thread_type* is NoThread.                              *)
(***************************************************************************)
EXTENDS Integers, Sequences, FiniteSets, TLC

VARIABLES
    heap,            \* relay_server objects by address: RecIds -> record
    relays,          \* global.relays: list of addresses, head first
    master_relays,   \* global.master_relays
    config,          \* the ice_config_t fields slave.c reads
    rc,              \* observation of the last update_relays calls (reconciler runs)
    slaves,          \* global.slaves: list of slave_host, head first
    slave_count,     \* global.slave_count
    sources,         \* the source tree: mount -> source_t
    threads,         \* relay worker threads by handle
    sup_pc,          \* where _slave_thread is
    interval,        \* _slave_thread's local interval
    time,            \* global.time: seconds since the supervisor started
    max_interval,    \* static max_interval
    rescan_relays,   \* static rescan_relays
    update_settings, \* static update_settings
    slave_running,   \* static slave_running
    fetch,           \* streamlist threads by slot
    ctx,             \* per sweeping thread: where relay_check_streams is
    held,            \* per sweeping thread: the locks it holds, oldest first
    ub,              \* "no", or the undefined behaviour the run ended in
    pending,         \* the requests made since the supervisor's last tick began
    call,            \* the last call observed from outside: its inputs and its result
    since            \* the ticks counted since the supervisor's last full refresh

tableVars == <<slaves, slave_count>>

runVars == <<sources, threads, sup_pc, interval, time, max_interval, rescan_relays,
             update_settings, slave_running, fetch, ctx, held, ub>>

\* what the properties observe; no code reads them
obsVars == <<pending, call, since>>

vars == <<heap, relays, master_relays, config, rc, tableVars, runVars, obsVars>>

(***************************************************************************)
(* Bounds of the model.                                                    *)
(***************************************************************************)
MaxLen == 2        \* longest relay list handed to update_relays
MaxCount == 3      \* largest reference count of a slave host entry
MaxThreads == 2    \* worker threads that run or wait for their join at once
MaxFetch == 1      \* streamlist threads in flight at once
MaxTime == 2       \* seconds the supervisor loop is followed for

NULL == "NULL"
NoSource == <<>>
NoThread == 0

RecIds == 1..(3 * MaxLen)

(***************************************************************************)
(* Basic sequence helpers.                                                 *)
(***************************************************************************)
Range(s) == {s[i] : i \in 1..Len(s)}

RemoveAt(s, i) == SubSeq(s, 1, i - 1) \o SubSeq(s, i + 1, Len(s))

Min(S) == CHOOSE x \in S : \A y \in S : x <= y

SeqsUpTo(S, n) == UNION {[1..k -> S] : k \in 0..n}

(***************************************************************************)
(* relay_server records.                                                   *)
(***************************************************************************)
MountA == <<"/", "a">>
MountB == <<"/", "b">>

\* a zeroed relay_server (calloc) with the configured fields filled in
MkRelay(server, port, mount, localmount, username, password, mp3, od, en) ==
    [alloc |-> TRUE, server |-> server, port |-> port, mount |-> mount,
     localmount |-> localmount, username |-> username, password |-> password,
     mp3metadata |-> mp3, on_demand |-> od, enable |-> en,
     source |-> NoSource, thread |-> NoThread, running |-> 0, cleanup |-> 0]

\* a freed block
FreeRec ==
    [alloc |-> FALSE, server |-> <<NULL>>, port |-> 0, mount |-> <<>>,
     localmount |-> <<>>, username |-> NULL, password |-> NULL,
     mp3metadata |-> 0, on_demand |-> 0, enable |-> 0,
     source |-> NoSource, thread |-> NoThread, running |-> 0, cleanup |-> 0]

EmptyHeap == [i \in RecIds |-> FreeRec]

FreeIds(h) == {i \in RecIds : ~h[i].alloc}

\* calloc: the lowest free address
Alloc(h) == Min(FreeIds(h))

(***************************************************************************)
(* relay_copy (slave.c 95-116): the copy takes the configured fields and   *)
(* the source handle; the original loses its source handle.                *)
(***************************************************************************)
relay_copy_noport(r) ==
    [copy |-> [MkRelay(r.server, 0, r.mount, r.localmount, r.username,
                       r.password, r.mp3metadata, r.on_demand, r.enable)
                  EXCEPT !.source = r.source],
     r |-> [r EXCEPT !.source = NoSource]]

relay_copy(r) ==
    [copy |-> [MkRelay(r.server, r.port, r.mount, r.localmount, r.username,
                       r.password, r.mp3metadata, r.on_demand, r.enable)
                  EXCEPT !.source = r.source],
     r |-> [r EXCEPT !.source = NoSource]]

(***************************************************************************)
(* relay_has_changed (slave.c 471-488): ret = 1 when the relay has to be   *)
(* restarted; on the ret = 0 path the old record takes the new on_demand.  *)
(***************************************************************************)
relay_has_changed_noport(new, old) ==
    IF new.mount # old.mount THEN [ret |-> 1, old |-> old]
    ELSE IF new.server # old.server THEN [ret |-> 1, old |-> old]
    ELSE IF new.mp3metadata # old.mp3metadata THEN [ret |-> 1, old |-> old]
    ELSE [ret |-> 0, old |-> [old EXCEPT !.on_demand = new.on_demand]]

\* relay_has_changed without line 486 (the on_demand of the new record is dropped)
relay_has_changed_keepod(new, old) ==
    IF new.mount # old.mount THEN [ret |-> 1, old |-> old]
    ELSE IF new.server # old.server THEN [ret |-> 1, old |-> old]
    ELSE IF new.port # old.port THEN [ret |-> 1, old |-> old]
    ELSE IF new.mp3metadata # old.mp3metadata THEN [ret |-> 1, old |-> old]
    ELSE [ret |-> 0, old |-> old]

relay_has_changed(new, old) ==
    IF new.mount # old.mount THEN [ret |-> 1, old |-> old]
    ELSE IF new.server # old.server THEN [ret |-> 1, old |-> old]
    ELSE IF new.port # old.port THEN [ret |-> 1, old |-> old]
    ELSE IF new.mp3metadata # old.mp3metadata THEN [ret |-> 1, old |-> old]
    ELSE [ret |-> 0, old |-> [old EXCEPT !.on_demand = new.on_demand]]

(***************************************************************************)
(* update_relay_set (slave.c 495-530).                                     *)
(***************************************************************************)
\* the inner while loop: position in current of the record it breaks out on,
\* 0 when it runs off the end (existing_relay == NULL)
FindExisting(h, current, relay) ==
    LET hits == {i \in 1..Len(current) :
                    /\ relay.localmount = h[current[i]].localmount
                    /\ relay_has_changed(relay, h[current[i]]).ret = 0}
    IN  IF hits = {} THEN 0 ELSE Min(hits)

RECURSIVE update_relay_set_loop(_, _, _, _, _)
update_relay_set_loop(h, current, updated, k, new_list) ==
    IF k > Len(updated)
    THEN [heap |-> h, current |-> current, updated |-> updated, new_list |-> new_list]
    ELSE LET relay == updated[k]
             i == FindExisting(h, current, relay)
         IN  IF i = 0
             THEN \* new one, copy and insert
                  LET id == Alloc(h)
                      c == relay_copy(relay)
                  IN  update_relay_set_loop([h EXCEPT ![id] = c.copy], current,
                                            [updated EXCEPT ![k] = c.r], k + 1,
                                            <<id>> \o new_list)
             ELSE LET e == current[i]
                  IN  update_relay_set_loop(
                          [h EXCEPT ![e] = relay_has_changed(relay, h[e]).old],
                          RemoveAt(current, i), updated, k + 1, <<e>> \o new_list)

update_relay_set(h, current, updated) ==
    update_relay_set_loop(h, current, updated, 1, <<>>)

(***************************************************************************)
(* update_relays (slave.c 537-549): the list becomes the active set, what  *)
(* was left in it is returned as the cleanup list.                         *)
(***************************************************************************)
\* update_relays that returns no cleanup list
update_relays_nocleanup(h, relay_list, new_relay_list) ==
    LET s == update_relay_set(h, relay_list, new_relay_list)
    IN  [heap |-> s.heap, relay_list |-> s.new_list,
         cleanup_relays |-> <<>>, updated |-> s.updated]

update_relays(h, relay_list, new_relay_list) ==
    LET s == update_relay_set(h, relay_list, new_relay_list)
    IN  [heap |-> s.heap, relay_list |-> s.new_list,
         cleanup_relays |-> s.current, updated |-> s.updated]

(***************************************************************************)
(* Threads, sources and sweep contexts.                                    *)
(***************************************************************************)
Tids == 1..MaxThreads
FetchIds == 1..MaxFetch

\* the sweeping threads: the supervisor and the streamlist threads
Supervisor == 0
Sweepers == {Supervisor} \cup FetchIds

SrcMounts == {MountA, MountB}

\* a mount that is not in the source tree
NoSourceRec == [reserved |-> FALSE, running |-> FALSE, on_demand |-> 0, on_demand_req |-> 0]

\* a thread handle not in use
NoThreadRec == [pc |-> "none", relay |-> 0, lost |-> FALSE, freed |-> FALSE]

\* a streamlist thread slot not in use; code is the status the last thread
\* of the slot was answered with, 0 for no status line; result is what
\* curl_easy_perform returned to the thread
NoFetch == [pc |-> "none", server |-> <<NULL>>, port |-> 0, on_demand |-> 0,
            send_auth |-> 0, username |-> NULL, password |-> NULL, code |-> 0,
            result |-> "CURLE_OK"]

\* a thread that is not inside relay_check_streams
IdleCtx == [kind |-> "none", stage |-> "idle", to_free |-> <<>>, to_start |-> <<>>,
            cleanup_relays |-> <<>>, list0 |-> <<>>, list1 |-> <<>>,
            old |-> <<>>, desired |-> <<>>, log |-> <<>>]

\* the state slave_initialize leaves: the supervisor created, nothing else
InitRun ==
    /\ sources = [m \in SrcMounts |-> NoSourceRec]
    /\ threads = [t \in Tids |-> NoThreadRec]
    /\ sup_pc = "start"
    /\ interval = 0
    /\ time = 0
    /\ max_interval = 0
    /\ rescan_relays = 0
    /\ update_settings = 0
    /\ slave_running = 1
    /\ fetch = [f \in FetchIds |-> NoFetch]
    /\ ctx = [s \in Sweepers |-> IdleCtx]
    /\ held = [s \in Sweepers |-> <<>>]
    /\ ub = "no"

\* no request since the last tick began
NoPending == [recheck |-> FALSE, rescan |-> FALSE]

\* no call observed
NoCall == [name |-> "none"]

\* no full refresh yet
NoSince == [started |-> FALSE, ticks |-> 0, rescan |-> FALSE, recheck |-> FALSE,
            gap |-> 0]

InitObs ==
    /\ pending = NoPending
    /\ call = NoCall
    /\ since = NoSince

(***************************************************************************)
(* Reconciler runs: the state is a current list and an updated list, the   *)
(* actions call update_relays on them once and then once more.             *)
(***************************************************************************)
BaseA == MkRelay(<<"s", "1">>, 8000, MountA, MountA, NULL, NULL, 1, 0, 1)
BaseB == MkRelay(<<"s", "1">>, 8000, MountB, MountB, NULL, NULL, 1, 0, 1)

\* records a current list is drawn from
CurTemplates == {BaseA, [BaseA EXCEPT !.on_demand = 1], BaseB}

\* records an updated list is drawn from: BaseA with one attribute changed
UpdTemplates ==
    {BaseA, BaseB,
     [BaseA EXCEPT !.server = <<"s", "2">>], [BaseA EXCEPT !.port = 8001],
     [BaseA EXCEPT !.mount = MountB], [BaseA EXCEPT !.mp3metadata = 0],
     [BaseA EXCEPT !.username = "u"], [BaseA EXCEPT !.password = "p"],
     [BaseA EXCEPT !.enable = 0], [BaseA EXCEPT !.on_demand = 1]}

RcIdle == [step |-> 0, heap0 |-> EmptyHeap, list0 |-> <<>>, cleanup1 |-> <<>>,
           list1 |-> <<>>, cleanup2 |-> <<>>]

\* the ice_config_t fields read by slave.c
BaseConfig ==
    [relay |-> <<>>, master_server |-> <<"m">>, master_server_port |-> 1,
     master_redirect_port |-> 2, master_update_interval |-> 1, hostname |-> "h1",
     master_username |-> "relay", master_password |-> "p",
     master_relay_auth |-> 0, on_demand |-> 0]

\* first call: update_relays (&current, updated)
RcFirst ==
    /\ rc.step = 0
    /\ LET u == update_relays(heap, relays, config.relay)
       IN  /\ heap' = u.heap
           /\ relays' = u.relay_list
           /\ config' = [config EXCEPT !.relay = u.updated]
           /\ rc' = [rc EXCEPT !.step = 1, !.heap0 = heap, !.list0 = relays,
                               !.cleanup1 = u.cleanup_relays]
    /\ UNCHANGED <<master_relays, tableVars, runVars, obsVars>>

\* second call, immediately, on the resulting list with the same updated list
RcSecond ==
    /\ rc.step = 1
    /\ LET u == update_relays(heap, relays, config.relay)
       IN  /\ heap' = u.heap
           /\ relays' = u.relay_list
           /\ config' = [config EXCEPT !.relay = u.updated]
           /\ rc' = [rc EXCEPT !.step = 2, !.list1 = relays,
                               !.cleanup2 = u.cleanup_relays]
    /\ UNCHANGED <<master_relays, tableVars, runVars, obsVars>>

InitReconcile ==
    /\ \E cur \in SeqsUpTo(CurTemplates, MaxLen) :
          /\ heap = [i \in RecIds |-> IF i <= Len(cur) THEN cur[i] ELSE FreeRec]
          /\ relays = [i \in 1..Len(cur) |-> i]
    /\ \E upd \in SeqsUpTo(UpdTemplates, MaxLen) :
          config = [BaseConfig EXCEPT !.relay = upd]
    /\ master_relays = <<>>
    /\ rc = RcIdle
    /\ slaves = <<>>
    /\ slave_count = 0
    /\ InitRun
    /\ InitObs

NextReconcile == RcFirst \/ RcSecond

SpecReconcile == InitReconcile /\ [][NextReconcile]_vars

\* C7: running update_relays a second time with the same updated list
\* returns an empty cleanup list and keeps exactly the records of the first
\* run (no record is copied anew)
C7_IdempotentReconcile ==
    rc.step = 2 =>
        /\ rc.cleanup2 = <<>>
        /\ Len(relays) = Len(rc.list1)
        /\ Range(relays) = Range(rc.list1)

\* C7 witness: a second run after a first run that kept one record, copied
\* another and put one on the cleanup list
C7_Witness ==
    /\ rc.step = 2
    /\ rc.cleanup1 # <<>>
    /\ Range(rc.list1) \ Range(rc.list0) # {}
    /\ Range(rc.list1) \cap Range(rc.list0) # {}

MaterialEq(d, e) ==
    /\ d.server = e.server
    /\ d.port = e.port
    /\ d.mount = e.mount
    /\ d.mp3metadata = e.mp3metadata

DiffersBeyondOnDemand(d, e) ==
    \/ ~MaterialEq(d, e)
    \/ d.username # e.username
    \/ d.password # e.password
    \/ d.enable # e.enable

\* after the first run: the new list holds a record that did not exist
\* before and is the copy of d
FreshCopyOf(d) ==
    \E id \in Range(relays) \ Range(rc.list0) : heap[id] = relay_copy(d).copy

\* C8 as stated: a desired record that differs from the existing record of
\* its local mount in anything but on_demand sends the existing record to
\* the cleanup list and gets a fresh copy; otherwise the record is kept
C8_RestartOnAnyChange ==
    rc.step = 1 =>
        \A e \in Range(rc.list0) : \A k \in DOMAIN config.relay :
            LET d == config.relay[k]
                old == rc.heap0[e]
            IN  d.localmount = old.localmount =>
                    IF DiffersBeyondOnDemand(d, old)
                    THEN e \in Range(rc.cleanup1) /\ FreshCopyOf(d)
                    ELSE e \in Range(relays)

\* C8 as amended: only server, port, mount and mp3metadata count.  A record
\* all of whose desired records of the same local mount differ in one of
\* them goes to the cleanup list; a desired record that agrees with no
\* existing record gets a fresh copy; a record that is alone on its local
\* mount and agrees in the four with a desired record is kept, whatever
\* on_demand, username, password and enable say, and only its on_demand is
\* written
C8_RestartOnMaterialChange ==
    rc.step = 1 =>
        /\ \A e \in Range(rc.list0) :
              LET old == rc.heap0[e]
                  ds == {k \in DOMAIN config.relay :
                            config.relay[k].localmount = old.localmount}
                  eq == {k \in ds : MaterialEq(config.relay[k], old)}
                  alone == \A f \in Range(rc.list0) :
                              rc.heap0[f].localmount = old.localmount => f = e
              IN  /\ (ds # {} /\ eq = {}) => e \in Range(rc.cleanup1)
                  /\ (eq # {} /\ alone) =>
                        /\ e \in Range(relays)
                        /\ e \notin Range(rc.cleanup1)
                        /\ heap[e] = [old EXCEPT
                              !.on_demand = config.relay[Min(eq)].on_demand]
        /\ \A k \in DOMAIN config.relay :
              LET d == config.relay[k]
              IN  (\A e \in Range(rc.list0) :
                      ~(rc.heap0[e].localmount = d.localmount
                        /\ MaterialEq(d, rc.heap0[e])))
                  => FreshCopyOf(d)

\* C8 witness: a desired record with another port than the existing record
\* of its local mount: the old record is on the cleanup list, the copy is in
\* the new list
C8_Witness ==
    /\ rc.step = 1
    /\ \E e \in Range(rc.list0) : \E k \in DOMAIN config.relay :
          /\ config.relay[k].localmount = rc.heap0[e].localmount
          /\ config.relay[k].port # rc.heap0[e].port
          /\ e \in Range(rc.cleanup1)
          /\ FreshCopyOf(config.relay[k])

(***************************************************************************)
(* The slave host table (slave.c 884-986).                                 *)
(***************************************************************************)
\* strchr: position of the first c in s, 0 when there is none
strchr(s, c) ==
    LET at == {i \in 1..Len(s) : s[i] = c}
    IN  IF at = {} THEN 0 ELSE Min(at)

Digits == <<"0", "1", "2", "3", "4", "5", "6", "7", "8", "9">>

IsDigit(c) == \E i \in 1..10 : Digits[i] = c

DigitVal(c) == (CHOOSE i \in 1..10 : Digits[i] = c) - 1

\* atoi on a string without blanks or sign: the leading digits, 0 if none
RECURSIVE atoi_loop(_, _, _)
atoi_loop(s, i, acc) ==
    IF i > Len(s) \/ ~IsDigit(s[i]) THEN acc
    ELSE atoi_loop(s, i + 1, 10 * acc + DigitVal(s[i]))

atoi(s) == atoi_loop(s, 1, 0)

\* find_slave_host: position of the first entry with that server and port
find_slave_host(sl, server, port) ==
    LET at == {i \in 1..Len(sl) : sl[i].server = server /\ sl[i].port = port}
    IN  IF at = {} THEN 0 ELSE Min(at)

\* _add_slave_host: a new entry with count 1 at the head
add_slave_host(tab, server, port) ==
    [slaves |-> <<[server |-> server, port |-> port, count |-> 1]>> \o tab.slaves,
     slave_count |-> tab.slave_count + 1]

\* a header the client did not send, or a NULL argument
NoHeader == <<NULL>>

\* slave_host_add that leaves the count of a known host as it is
slave_host_add_nocount(tab, header) ==
    IF header = NoHeader THEN tab
    ELSE LET separator == strchr(header, ":")
         IN  IF separator = 0 THEN tab
             ELSE LET server == SubSeq(header, 1, separator - 1)
                      port == atoi(SubSeq(header, separator + 1, Len(header)))
                      i == find_slave_host(tab.slaves, server, port)
                  IN  IF i # 0
                      THEN tab
                      ELSE add_slave_host(tab, server, port)

\* slave_host_add (client non-NULL)
slave_host_add(tab, header) ==
    IF header = NoHeader THEN tab
    ELSE LET separator == strchr(header, ":")
         IN  IF separator = 0 THEN tab
             ELSE LET server == SubSeq(header, 1, separator - 1)
                      port == atoi(SubSeq(header, separator + 1, Len(header)))
                      i == find_slave_host(tab.slaves, server, port)
                  IN  IF i # 0
                      THEN [tab EXCEPT !.slaves[i].count = @ + 1]
                      ELSE add_slave_host(tab, server, port)

\* slave_host_remove with an unlink that forgets global.slave_count--
slave_host_remove_nodec(tab, var) ==
    IF var = NoHeader THEN tab
    ELSE LET separator == strchr(var, ":")
         IN  IF separator = 0 THEN tab
             ELSE LET server == SubSeq(var, 1, separator - 1)
                      port == atoi(SubSeq(var, separator + 1, Len(var)))
                      i == find_slave_host(tab.slaves, server, port)
                  IN  IF i = 0 THEN tab
                      ELSE IF tab.slaves[i].count - 1 = 0
                      THEN [tab EXCEPT !.slaves = RemoveAt(tab.slaves, i)]
                      ELSE [tab EXCEPT !.slaves[i].count = @ - 1]

\* slave_host_remove: var is the client's ice-redirect header
slave_host_remove(tab, var) ==
    IF var = NoHeader THEN tab
    ELSE LET separator == strchr(var, ":")
         IN  IF separator = 0 THEN tab
             ELSE LET server == SubSeq(var, 1, separator - 1)
                      port == atoi(SubSeq(var, separator + 1, Len(var)))
                      i == find_slave_host(tab.slaves, server, port)
                  IN  IF i = 0 THEN tab
                      ELSE IF tab.slaves[i].count - 1 = 0
                      THEN [slaves |-> RemoveAt(tab.slaves, i),
                            slave_count |-> tab.slave_count - 1]
                      ELSE [tab EXCEPT !.slaves[i].count = @ - 1]

\* update_master_as_slave (slave.c 783-794); NoHeader is a NULL master_server
update_master_as_slave(tab, cfg) ==
    IF cfg.master_server = NoHeader \/ cfg.master_redirect_port = 0 THEN tab
    ELSE IF find_slave_host(tab.slaves, cfg.master_server, cfg.master_server_port) = 0
    THEN add_slave_host(tab, cfg.master_server, cfg.master_server_port)
    ELSE tab

SlaveTab == [slaves |-> slaves, slave_count |-> slave_count]

\* ice-redirect headers the clients send
Headers ==
    {<<"x", ":", "1">>, <<"x", ":", "2">>, <<"y", ":", "1">>,
     <<"x", ":", "0", "1">>, <<"x", ":">>, <<"x", "1">>, NoHeader}

\* master settings of the configuration
MasterSettings ==
    {[BaseConfig EXCEPT !.master_server = s, !.master_server_port = p,
                        !.master_redirect_port = r] :
        s \in {<<"x">>, <<"m">>, NoHeader}, p \in {1}, r \in {0, 2}}

\* largest count in the table after the call stays within the bound
CountsBounded(tab) == \A i \in 1..Len(tab.slaves) : tab.slaves[i].count <= MaxCount

SlaveHostAdd(header) ==
    LET t == slave_host_add(SlaveTab, header)
    IN  /\ CountsBounded(t)
        /\ slaves' = t.slaves
        /\ slave_count' = t.slave_count
        /\ UNCHANGED <<heap, relays, master_relays, config, rc, runVars, obsVars>>

SlaveHostRemove(var) ==
    LET t == slave_host_remove(SlaveTab, var)
    IN  /\ slaves' = t.slaves
        /\ slave_count' = t.slave_count
        /\ UNCHANGED <<heap, relays, master_relays, config, rc, runVars, obsVars>>

UpdateMasterAsSlave(cfg) ==
    LET t == update_master_as_slave(SlaveTab, cfg)
    IN  /\ slaves' = t.slaves
        /\ slave_count' = t.slave_count
        /\ UNCHANGED <<heap, relays, master_relays, config, rc, runVars, obsVars>>

InitSlaves ==
    /\ heap = EmptyHeap
    /\ relays = <<>>
    /\ master_relays = <<>>
    /\ config = BaseConfig
    /\ rc = RcIdle
    /\ slaves = <<>>
    /\ slave_count = 0
    /\ InitRun
    /\ InitObs

NextSlaves ==
    \/ \E h \in Headers : SlaveHostAdd(h)
    \/ \E h \in Headers : SlaveHostRemove(h)
    \/ \E c \in MasterSettings : UpdateMasterAsSlave(c)

SpecSlaves == InitSlaves /\ [][NextSlaves]_vars

\* C5: slave_count is the number of linked entries, every linked entry has
\* count >= 1, and no two linked entries have the same server and port
C5_SlaveTableConsistent ==
    /\ slave_count = Len(slaves)
    /\ \A i \in 1..Len(slaves) : slaves[i].count >= 1
    /\ \A i, j \in 1..Len(slaves) :
          (slaves[i].server = slaves[j].server /\ slaves[i].port = slaves[j].port)
              => i = j

\* C5 witness: three hosts linked, the newest one x:0 (parsed from "x:"),
\* one of them added twice, the master added by update_master_as_slave
C5_Witness ==
    /\ slave_count = 3
    /\ \E i \in 1..Len(slaves) : slaves[i].count = 2
    /\ \E i \in 1..Len(slaves) : slaves[i].server = <<"m">>
    /\ ~\E i \in 1..Len(slaves) : slaves[i].server = <<"y">>
    /\ slaves[1].server = <<"x">> /\ slaves[1].port = 0

(***************************************************************************)
(* The running server: supervisor, streamlist threads and relay workers.   *)
(*                                                                         *)
(* A sweep reads and writes the relay records, the source tree, the thread *)
(* handles and the two request flags; the operators below work on a record *)
(* of these (a world) and the actions write the result back.               *)
(***************************************************************************)
World == [heap |-> heap, sources |-> sources, threads |-> threads,
          rescan_relays |-> rescan_relays, update_settings |-> update_settings,
          ub |-> ub]

\* source_reserve: a new entry in the source tree unless the mount is taken
source_reserve(w, mount) ==
    IF w.sources[mount].reserved THEN [w |-> w, ret |-> NoSource]
    ELSE [w |-> [w EXCEPT !.sources[mount] = [NoSourceRec EXCEPT !.reserved = TRUE]],
          ret |-> mount]

\* source_free_source: the entry leaves the source tree
source_free_source(w, src) == [w EXCEPT !.sources[src] = NoSourceRec]

\* source_clear_source: back to a reserved, idle source
source_clear_source(w, src) ==
    [w EXCEPT !.sources[src].running = FALSE, !.sources[src].on_demand_req = 0]

\* slave_rebuild_mounts (slave.c 141-145)
slave_rebuild_mounts(w) == [w EXCEPT !.update_settings = 1, !.rescan_relays = 1]

FreeTids(w) == {t \in Tids : w.threads[t].pc = "none"}

\* thread_create at slave.c 436: the handle is stored in relay->thread; a
\* handle it overwrites names a thread nobody can join any more (lost)
thread_create(w, id) ==
    LET t == Min(FreeTids(w))
        old == w.heap[id].thread
        th == IF old # NoThread /\ w.threads[old].pc # "none"
              THEN [w.threads EXCEPT ![old].lost = TRUE]
              ELSE w.threads
    IN  [w EXCEPT !.threads = [th EXCEPT ![t] = [pc |-> "created", relay |-> id,
                                                 lost |-> FALSE, freed |-> FALSE]],
                  !.heap[id].thread = t]

\* thread_join of a thread that has returned: the handle is gone
thread_join(w, t) == [w EXCEPT !.threads[t] = NoThreadRec]

\* relay_free without source_free_source
relay_free_keepsource(w, id) ==
    [w EXCEPT !.heap[id] = FreeRec,
              !.threads = [t \in Tids |->
                              IF w.threads[t].pc # "none" /\ w.threads[t].relay = id
                              THEN [w.threads[t] EXCEPT !.freed = TRUE]
                              ELSE w.threads[t]]]

\* relay_free (slave.c 77-92): the source is released and the block freed;
\* a thread created for the record and not joined is left with a pointer to
\* the freed block (freed)
relay_free(w, id) ==
    LET w1 == IF w.heap[id].source # NoSource
              THEN source_free_source(w, w.heap[id].source)
              ELSE w
    IN  [w1 EXCEPT !.heap[id] = FreeRec,
                   !.threads = [t \in Tids |->
                                   IF w1.threads[t].pc # "none" /\ w1.threads[t].relay = id
                                   THEN [w1.threads[t] EXCEPT !.freed = TRUE]
                                   ELSE w1.threads[t]]]

\* check_relay_stream, slave.c 441-442: after the do-while, is there a
\* finished worker to join
crs_tail(w, id, lg) ==
    IF w.heap[id].cleanup # 0 /\ w.heap[id].thread # NoThread
    THEN [w |-> w, stage |-> "cjoin", ok |-> TRUE, log |-> lg]
    ELSE [w |-> w, stage |-> "next", ok |-> TRUE, log |-> lg]

\* check_relay_stream, slave.c 436-438
crs_spawn(w, id, lg) ==
    IF FreeTids(w) = {}
    THEN [w |-> w, stage |-> "next", ok |-> FALSE, log |-> lg]
    ELSE [w |-> thread_create(w, id), stage |-> "next", ok |-> TRUE,
          log |-> lg \o <<<<"spawn", id>>>>]

\* check_relay_stream without the enable test of slave.c 402-406
crs_top_noenable(w, id) ==
    LET r0 == w.heap[id]
    IN  IF r0.source = NoSource /\ (r0.localmount = <<>> \/ Head(r0.localmount) # "/")
        THEN [w |-> w, stage |-> "next", ok |-> TRUE, log |-> <<>>]
        ELSE LET res == IF r0.source = NoSource
                        THEN source_reserve(w, r0.localmount)
                        ELSE [w |-> w, ret |-> r0.source]
                 w1 == [res.w EXCEPT !.heap[id].source = res.ret]
                 lg == IF r0.source = NoSource /\ res.ret # NoSource
                       THEN <<<<"reserve", id>>>> ELSE <<>>
                 r == w1.heap[id]
             IN  IF r.source = NoSource \/ r.running # 0 THEN crs_tail(w1, id, lg)
                 ELSE IF r.on_demand # 0
                 THEN [w |-> w1, stage |-> "od", ok |-> TRUE, log |-> lg]
                 ELSE crs_spawn(w1, id, lg)

\* check_relay_stream, slave.c 380-409: up to the point where it returns,
\* spawns, asks for the configuration (od) or goes on to the join part
crs_top(w, id) ==
    LET r0 == w.heap[id]
    IN  IF r0.source = NoSource /\ (r0.localmount = <<>> \/ Head(r0.localmount) # "/")
        THEN [w |-> w, stage |-> "next", ok |-> TRUE, log |-> <<>>]
        ELSE LET res == IF r0.source = NoSource
                        THEN source_reserve(w, r0.localmount)
                        ELSE [w |-> w, ret |-> r0.source]
                 w1 == [res.w EXCEPT !.heap[id].source = res.ret]
                 lg == IF r0.source = NoSource /\ res.ret # NoSource
                       THEN <<<<"reserve", id>>>> ELSE <<>>
                 r == w1.heap[id]
             IN  IF r.source = NoSource \/ r.running # 0 THEN crs_tail(w1, id, lg)
                 ELSE IF r.enable = 0 THEN crs_tail(w1, id, lg)
                 ELSE IF r.on_demand # 0
                 THEN [w |-> w1, stage |-> "od", ok |-> TRUE, log |-> lg]
                 ELSE crs_spawn(w1, id, lg)

\* what check_relay_stream finds outside slave.c when it looks for a
\* fallback override: the source's fallback_mount and fallback_override,
\* whether source_find_mount finds the fallback, and the fallback's running
\* and listeners
FallbackEnv ==
    [fallback_mount : {NULL, "/live"}, fallback_override : {0, 1},
     found : BOOLEAN, running : {0, 1}, listeners : {0, 1, 2}]

\* slave.c 419-425: the fallback override applies
fallback_override(fb) ==
    /\ fb.fallback_mount # NULL /\ fb.fallback_override # 0
    /\ fb.found /\ fb.running # 0 /\ fb.listeners # 0

\* the on-demand branch without the fallback override
crs_od_nooverride(w, id, fb) ==
    LET src == w.heap[id].source
        w1 == slave_rebuild_mounts(w)
        w2 == [w1 EXCEPT !.sources[src].on_demand = w.heap[id].on_demand]
    IN  IF w2.sources[src].on_demand_req = 0 THEN crs_tail(w2, id, <<>>)
        ELSE crs_spawn(w2, id, <<>>)

\* check_relay_stream, slave.c 410-434: the on-demand branch after
\* config_get_config; fb is what the fallback lookup finds
crs_od(w, id, fb) ==
    LET src == w.heap[id].source
        w1 == slave_rebuild_mounts(w)
        w2 == [w1 EXCEPT !.sources[src].on_demand = w.heap[id].on_demand]
        w3 == IF fallback_override(fb)
              THEN [w2 EXCEPT !.sources[src].on_demand_req = 1] ELSE w2
    IN  IF w3.sources[src].on_demand_req = 0 THEN crs_tail(w3, id, <<>>)
        ELSE crs_spawn(w3, id, <<>>)

\* check_relay_stream, slave.c 445-457: the join of a finished worker
crs_join(w, id) ==
    LET w1 == thread_join(w, w.heap[id].thread)
        w2 == [w1 EXCEPT !.heap[id].thread = NoThread, !.heap[id].cleanup = 0,
                         !.heap[id].running = 0]
        lg == <<<<"join", id>>>>
    IN  IF w2.heap[id].enable = 0
        THEN [w |-> slave_rebuild_mounts(w2), stage |-> "next", ok |-> TRUE, log |-> lg]
        ELSE IF w2.heap[id].on_demand # 0
        THEN [w |-> w2, stage |-> "jod", ok |-> TRUE, log |-> lg]
        ELSE [w |-> w2, stage |-> "next", ok |-> TRUE, log |-> lg]

SetWorld(w) ==
    /\ heap' = w.heap
    /\ sources' = w.sources
    /\ threads' = w.threads
    /\ rescan_relays' = w.rescan_relays
    /\ update_settings' = w.update_settings
    /\ ub' = w.ub

RelayLockFree == \A s \in Sweepers : "relay" \notin Range(held[s])

ConfigLockFree == \A s \in Sweepers : "config" \notin Range(held[s])

\* relay_check_streams has work left, or has returned
SweepStage(to_free, to_start) ==
    IF to_free = <<>> /\ to_start = <<>> THEN "done" ELSE "sweep"

\* a call of relay_check_streams after update_relays
BeginSweep(kind, u, list0, desired) ==
    [kind |-> kind, stage |-> SweepStage(u.cleanup_relays, u.relay_list),
     to_free |-> u.cleanup_relays, to_start |-> u.relay_list,
     cleanup_relays |-> u.cleanup_relays, list0 |-> list0, list1 |-> u.relay_list,
     old |-> [i \in Range(list0) |-> heap[i]], desired |-> desired, log |-> <<>>]

(***************************************************************************)
(* relay_check_streams (slave.c 552-580), one record per step; a blocking  *)
(* thread_join is a step of its own.                                       *)
(***************************************************************************)
\* slave.c 556-571: the head of to_free is freed, or told to stop first
FreeStep(s) ==
    /\ ub = "no"
    /\ ctx[s].stage = "sweep"
    /\ ctx[s].to_free # <<>>
    /\ LET c == ctx[s]
           id == Head(c.to_free)
           r == heap[id]
       IN  IF ~r.alloc
           THEN /\ SetWorld([World EXCEPT !.ub = "uaf"])
                /\ ctx' = ctx
           ELSE IF r.source # NoSource /\ r.running # 0
           THEN /\ SetWorld([World EXCEPT !.sources[r.source].running = FALSE])
                /\ ctx' = [ctx EXCEPT ![s].stage = "fjoin",
                                      ![s].log = Append(@, <<"stop", id>>)]
           ELSE /\ SetWorld(relay_free(World, id))
                /\ ctx' = [ctx EXCEPT ![s].to_free = Tail(@),
                                      ![s].log = Append(@, <<"free", id>>),
                                      ![s].stage = SweepStage(Tail(c.to_free), c.to_start)]
    /\ UNCHANGED <<relays, master_relays, config, rc, tableVars, sup_pc, interval, time,
                   max_interval, slave_running, fetch, held, obsVars>>

\* slave.c 565-571: thread_join returns once the worker has, then the
\* record is freed
FreeJoin(s) ==
    /\ ub = "no"
    /\ ctx[s].stage = "fjoin"
    /\ LET c == ctx[s]
           id == Head(c.to_free)
           t == heap[id].thread
       IN  IF t = NoThread
           THEN /\ SetWorld([World EXCEPT !.ub = "joinnull"])
                /\ ctx' = ctx
           ELSE /\ threads[t].pc = "exited"
                /\ SetWorld(relay_free(slave_rebuild_mounts(thread_join(World, t)), id))
                /\ ctx' = [ctx EXCEPT ![s].to_free = Tail(@),
                                      ![s].log = @ \o <<<<"join", id>>, <<"free", id>>>>,
                                      ![s].stage = SweepStage(Tail(c.to_free), c.to_start)]
    /\ UNCHANGED <<relays, master_relays, config, rc, tableVars, sup_pc, interval, time,
                   max_interval, slave_running, fetch, held, obsVars>>

\* what a part of check_relay_stream leaves: the next record, or a stage
\* inside the call; h is the lock stack the part started with
AfterCheck(s, res, h) ==
    /\ res.ok
    /\ SetWorld(res.w)
    /\ IF res.stage = "next"
       THEN ctx' = [ctx EXCEPT ![s].to_start = Tail(@),
                               ![s].log = @ \o res.log,
                               ![s].stage = SweepStage(<<>>, Tail(ctx[s].to_start))]
       ELSE ctx' = [ctx EXCEPT ![s].log = @ \o res.log, ![s].stage = res.stage]
    /\ IF res.stage \in {"od", "jod"}
       THEN held' = [held EXCEPT ![s] = Append(h, "config")]
       ELSE held' = [held EXCEPT ![s] = h]
    /\ UNCHANGED <<relays, master_relays, config, rc, tableVars, sup_pc, interval, time,
                   max_interval, slave_running, fetch, obsVars>>

\* slave.c 575-579 with check_relay_stream up to 409 / 438 / 442
StartStep(s) ==
    /\ ub = "no"
    /\ ctx[s].stage = "sweep"
    /\ ctx[s].to_free = <<>>
    /\ ctx[s].to_start # <<>>
    /\ LET id == Head(ctx[s].to_start)
       IN  IF ~heap[id].alloc
           THEN /\ SetWorld([World EXCEPT !.ub = "uaf"])
                /\ UNCHANGED <<relays, master_relays, config, rc, tableVars, sup_pc,
                               interval, time, max_interval, slave_running, fetch, ctx, held, obsVars>>
           ELSE AfterCheck(s, crs_top(World, id), held[s])

\* check_relay_stream 410-438: the configuration is released, the on-demand
\* relay starts if it is asked for
StartOnDemand(s) ==
    /\ ub = "no"
    /\ ctx[s].stage = "od"
    /\ \E fb \in FallbackEnv :
          AfterCheck(s, crs_od(World, Head(ctx[s].to_start), fb),
                     SubSeq(held[s], 1, Len(held[s]) - 1))

\* check_relay_stream 445-458: thread_join returns once the worker has
StartJoin(s) ==
    /\ ub = "no"
    /\ ctx[s].stage = "cjoin"
    /\ threads[heap[Head(ctx[s].to_start)].thread].pc = "exited"
    /\ AfterCheck(s, crs_join(World, Head(ctx[s].to_start)), held[s])

\* check_relay_stream 459-462: source_update_settings, config_release_config
StartJoinOnDemand(s) ==
    /\ ub = "no"
    /\ ctx[s].stage = "jod"
    /\ AfterCheck(s, [w |-> World, stage |-> "next", ok |-> TRUE, log |-> <<>>],
                  SubSeq(held[s], 1, Len(held[s]) - 1))

(***************************************************************************)
(* start_relay_stream (slave.c 216-376).  A worker whose record was freed  *)
(* under it reads and writes freed memory at its next step.                *)
(***************************************************************************)
WorkerFrame == <<relays, master_relays, config, rc, tableVars, sup_pc, interval, time,
                 max_interval, slave_running, fetch, ctx, held, obsVars>>

\* the worker returns: its handle waits for thread_join, unless nothing
\* points to the handle any more
ThreadReturn(th) == IF th.lost THEN NoThreadRec ELSE [th EXCEPT !.pc = "exited"]

\* slave.c 225: relay->running = 1
WorkerBegin(t) ==
    /\ ub = "no"
    /\ threads[t].pc = "created"
    /\ IF threads[t].freed
       THEN SetWorld([World EXCEPT !.ub = "uaf"])
       ELSE SetWorld([World EXCEPT !.heap[threads[t].relay].running = 1,
                                   !.threads[t].pc = "connect"])
    /\ UNCHANGED WorkerFrame

\* slave.c 232-331 breaking out of the do-while, then 351-375
WorkerFail(t) ==
    /\ ub = "no"
    /\ threads[t].pc = "connect"
    /\ IF threads[t].freed
       THEN SetWorld([World EXCEPT !.ub = "uaf"])
       ELSE LET id == threads[t].relay
                w1 == source_clear_source(World, heap[id].source)
            IN  SetWorld([w1 EXCEPT !.heap[id].cleanup = 1,
                                    !.rescan_relays = 1,
                                    !.threads[t] = ThreadReturn(threads[t])])
    /\ UNCHANGED WorkerFrame

\* slave.c 335: source_main starts, the source is running
WorkerPump(t) ==
    /\ ub = "no"
    /\ threads[t].pc = "connect"
    /\ IF threads[t].freed
       THEN SetWorld([World EXCEPT !.ub = "uaf"])
       ELSE SetWorld([World EXCEPT !.sources[heap[threads[t].relay].source].running = TRUE,
                                   !.threads[t].pc = "pump"])
    /\ UNCHANGED WorkerFrame

\* slave.c 335-348: source_main returns (told to stop, or the upstream
\* ended) with the source cleared
WorkerEnd(t) ==
    /\ ub = "no"
    /\ threads[t].pc = "pump"
    /\ IF threads[t].freed
       THEN SetWorld([World EXCEPT !.ub = "uaf"])
       ELSE LET id == threads[t].relay
                w1 == source_clear_source(World, heap[id].source)
            IN  SetWorld([w1 EXCEPT !.heap[id].cleanup = 1,
                                    !.rescan_relays = 1,
                                    !.threads[t] = ThreadReturn(threads[t])])
    /\ UNCHANGED WorkerFrame

(***************************************************************************)
(* streamlist_thread (slave.c 702-755) and update_from_master (759-780).   *)
(***************************************************************************)
\* streamlist_data 651-692 on complete lines: every non-empty line becomes
\* a relay at the head of new_relays
RECURSIVE streamlist_data(_, _, _)
streamlist_data(master, lines, new_relays) ==
    IF lines = <<>> THEN new_relays
    ELSE LET buf == Head(lines)
             r == MkRelay(master.server, master.port, buf, buf,
                          IF master.send_auth # 0 THEN master.username ELSE NULL,
                          IF master.send_auth # 0 THEN master.password ELSE NULL,
                          1, master.on_demand, 1)
         IN  IF Len(buf) # 0
             THEN streamlist_data(master, Tail(lines), <<r>> \o new_relays)
             ELSE streamlist_data(master, Tail(lines), new_relays)

\* update_from_master: the details of a new streamlist thread, NoFetch when
\* it returns early
update_from_master(cfg) ==
    IF cfg.master_password = NULL \/ cfg.master_server = NoHeader
       \/ cfg.master_server_port = 0
    THEN NoFetch
    ELSE [pc |-> "fetching", server |-> cfg.master_server,
          port |-> cfg.master_server_port, on_demand |-> cfg.on_demand,
          send_auth |-> cfg.master_relay_auth, username |-> cfg.master_username,
          password |-> cfg.master_password, code |-> 0, result |-> "CURLE_OK"]

FreeFetch == {f \in FetchIds : fetch[f].pc = "none"}

\* stream lists a master answers with, as lines
MasterBodies ==
    {<<>>, <<<<>>, MountA>>}

\* a header line of the master's response: a status line with its code, or
\* another header field
StatusLine(code) == [http |-> TRUE, code |-> code]
FieldLine == [http |-> FALSE, code |-> 0]

\* streamlist_header that takes every status line for a success
streamlist_header_anystatus(ok, line) ==
    IF line.http THEN [ok |-> 1, abort |-> FALSE] ELSE [ok |-> ok, abort |-> FALSE]

\* streamlist_header (slave.c 601-632) on a complete line: ok after the
\* line, and whether it returned -1
streamlist_header(ok, line) ==
    IF line.http
    THEN IF line.code = 200
         THEN [ok |-> 1, abort |-> FALSE]
         ELSE [ok |-> ok, abort |-> TRUE]
    ELSE [ok |-> ok, abort |-> FALSE]

\* curl_easy_perform (slave.c 732): the header lines go to streamlist_header
\* one by one until one returns -1; the body is read only if none did
RECURSIVE curl_easy_perform(_, _)
curl_easy_perform(ok, lines) ==
    IF lines = <<>> THEN [ok |-> ok, body |-> TRUE]
    ELSE LET h == streamlist_header(ok, Head(lines))
         IN  IF h.abort THEN [ok |-> h.ok, body |-> FALSE]
             ELSE curl_easy_perform(h.ok, Tail(lines))

\* the status of a response, 0 when it has no status line
StatusOf(lines) == IF lines # <<>> /\ Head(lines).http THEN Head(lines).code ELSE 0

\* header blocks a master answers with; <<>> is a failed connection
MasterHeaders ==
    {<<>>, <<StatusLine(200), FieldLine>>, <<StatusLine(404), FieldLine>>}

\* what curl_easy_perform returns (slave.c 732) for a transfer that ran as
\* p says: the error of a callback that returned -1, and for a body that was
\* read either success or the error that ended it (CURLOPT_TIMEOUT, 729)
CurlResults(p) ==
    IF p.body THEN {"CURLE_OK", "CURLE_OPERATION_TIMEDOUT"} ELSE {"CURLE_WRITE_ERROR"}

\* slave.c 732-734 with ok = 0, 748-754: nothing is committed
FetchFail(f, hdr) ==
    /\ ub = "no"
    /\ fetch[f].pc = "fetching"
    /\ curl_easy_perform(0, hdr).ok = 0
    /\ fetch' = [fetch EXCEPT ![f] = [NoFetch EXCEPT !.code = StatusOf(hdr)]]
    /\ UNCHANGED <<heap, relays, master_relays, config, rc, tableVars, sources,
                   threads, sup_pc, interval, time, max_interval, rescan_relays,
                   update_settings, slave_running, ctx, held, ub, obsVars>>

\* slave.c 732-742: whatever curl_easy_perform returned is only logged; ok = 1,
\* relay_lock, update_relays on global.master_relays with the lines read
FetchCommit(f, hdr, lines) ==
    /\ ub = "no"
    /\ fetch[f].pc = "fetching"
    /\ curl_easy_perform(0, hdr).ok # 0
    /\ RelayLockFree
    /\ LET new_relays == IF curl_easy_perform(0, hdr).body
                         THEN streamlist_data(fetch[f], lines, <<>>)
                         ELSE <<>>
           u == update_relays(heap, master_relays, new_relays)
       IN  IF sup_pc \in {"shutdown2", "done"} /\ master_relays # <<>>
           THEN /\ ub' = "race"
                /\ UNCHANGED <<heap, master_relays, ctx, held, fetch>>
           ELSE /\ heap' = u.heap
                /\ master_relays' = u.relay_list
                /\ ctx' = [ctx EXCEPT ![f] = BeginSweep("commit", u, master_relays, new_relays)]
                /\ held' = [held EXCEPT ![f] = <<"relay">>]
                /\ \E result \in CurlResults(curl_easy_perform(0, hdr)) :
                      fetch' = [fetch EXCEPT ![f].pc = "commit",
                                             ![f].code = StatusOf(hdr),
                                             ![f].result = result]
                /\ ub' = ub
    /\ UNCHANGED <<relays, config, rc, tableVars, sources, threads, sup_pc, interval, time,
                   max_interval, rescan_relays, update_settings, slave_running, obsVars>>

\* slave.c 743-754: the parsed list is freed, relay_lock released
FetchDone(f) ==
    /\ ub = "no"
    /\ fetch[f].pc = "commit"
    /\ ctx[f].stage = "done"
    /\ ctx' = [ctx EXCEPT ![f] = IdleCtx]
    /\ held' = [held EXCEPT ![f] = <<>>]
    /\ fetch' = [fetch EXCEPT ![f] = NoFetch]
    /\ UNCHANGED <<heap, relays, master_relays, config, rc, tableVars, sources,
                   threads, sup_pc, interval, time, max_interval, rescan_relays,
                   update_settings, slave_running, ub, obsVars>>

(***************************************************************************)
(* _slave_thread (slave.c 797-868).                                        *)
(***************************************************************************)
\* slave.c 802-805
SlaveThreadStart ==
    /\ ub = "no"
    /\ sup_pc = "start"
    /\ LET t == update_master_as_slave(SlaveTab, config)
       IN  /\ slaves' = t.slaves
           /\ slave_count' = t.slave_count
    /\ sup_pc' = "loop"
    /\ UNCHANGED <<heap, relays, master_relays, config, rc, sources, threads,
                   interval, time, max_interval, rescan_relays, update_settings,
                   slave_running, fetch, ctx, held, ub, obsVars>>

\* event_config_read (slave.c 812-816): a new relay list in the configuration
ConfigRead(list) ==
    /\ ub = "no"
    /\ sup_pc = "loop"
    /\ time < MaxTime
    /\ ConfigLockFree
    /\ list # config.relay
    /\ config' = [config EXCEPT !.relay = list]
    /\ UNCHANGED <<heap, relays, master_relays, rc, tableVars, runVars, obsVars>>

\* a full refresh has been made, and neither slave_recheck_mounts nor a
\* rescan (by slave_rescan, a worker or slave_rebuild_mounts) was asked for
\* from its tick to the tick that begins now
QuietSinceRefresh ==
    /\ since.started
    /\ ~since.rescan /\ ~since.recheck
    /\ ~pending.rescan /\ ~pending.recheck
    /\ rescan_relays = 0

\* the count of ticks after a tick of that kind: a full refresh starts it
\* anew and notes in gap the ticks from the refresh before, 0 if a request
\* came in between; another tick adds one (up to MaxTime + 1) and notes a
\* light rescan and the requests made since the tick before
SinceTick(kind) ==
    IF kind = "refresh"
    THEN [started |-> TRUE, ticks |-> 0, rescan |-> FALSE, recheck |-> FALSE,
          gap |-> IF QuietSinceRefresh THEN since.ticks + 1 ELSE 0]
    ELSE [started |-> since.started,
          ticks |-> IF since.ticks <= MaxTime THEN since.ticks + 1 ELSE since.ticks,
          rescan |-> since.rescan \/ pending.rescan \/ kind = "rescan",
          recheck |-> since.recheck \/ pending.recheck,
          gap |-> since.gap]

\* slave.c 822 with ++interval evaluated whatever rescan_relays is
TickInterval_always == interval + 1

\* slave.c 822: interval after the test, ++interval only when it is evaluated
TickInterval == IF rescan_relays = 0 THEN interval + 1 ELSE interval

\* slave.c 822: the test that sends the loop back to sleep
TickContinue == rescan_relays = 0 /\ max_interval > TickInterval

\* slave.c 818-820: slave_running is 0, the loop is left; 862
TickShutdown ==
    /\ ub = "no"
    /\ sup_pc = "loop"
    /\ slave_running = 0
    /\ time < MaxTime
    /\ sup_pc' = "shutdown1"
    /\ ctx' = [ctx EXCEPT ![Supervisor] =
                  [IdleCtx EXCEPT !.kind = "shutdown", !.to_free = relays,
                                  !.stage = SweepStage(relays, <<>>)]]
    /\ UNCHANGED <<heap, relays, master_relays, config, rc, tableVars, sources,
                   threads, interval, time, max_interval, rescan_relays, update_settings,
                   slave_running, fetch, held, ub, obsVars>>

\* slave.c 818-823: nothing to do this second
TickIdle ==
    /\ ub = "no"
    /\ sup_pc = "loop"
    /\ slave_running # 0
    /\ time < MaxTime
    /\ time' = time + 1
    /\ TickContinue
    /\ interval' = TickInterval
    /\ pending' = NoPending
    /\ since' = SinceTick("idle")
    /\ UNCHANGED <<heap, relays, master_relays, config, rc, tableVars, sources,
                   threads, sup_pc, max_interval, rescan_relays, update_settings,
                   slave_running, fetch, ctx, held, ub, call>>

\* slave.c 818-829: the full refresh is due, config_get_config is called
TickRefresh ==
    /\ ub = "no"
    /\ sup_pc = "loop"
    /\ slave_running # 0
    /\ time < MaxTime
    /\ time' = time + 1
    /\ ~TickContinue
    /\ max_interval <= TickInterval
    /\ interval' = TickInterval
    /\ sup_pc' = "config"
    /\ pending' = NoPending
    /\ since' = SinceTick("refresh")
    /\ UNCHANGED <<heap, relays, master_relays, config, rc, tableVars, sources,
                   threads, max_interval, rescan_relays, update_settings,
                   slave_running, fetch, ctx, held, ub, call>>

\* slave.c 829-835: the configuration is held, interval and max_interval are
\* set from it, the streamlist thread is created
RefreshConfig ==
    /\ ub = "no"
    /\ sup_pc = "config"
    /\ ConfigLockFree
    /\ held' = [held EXCEPT ![Supervisor] = <<"config">>]
    /\ interval' = 0
    /\ max_interval' = config.master_update_interval
    /\ LET t == update_master_as_slave(SlaveTab, config)
       IN  /\ slaves' = t.slaves
           /\ slave_count' = t.slave_count
    /\ IF FreeFetch # {}
       THEN fetch' = [fetch EXCEPT ![Min(FreeFetch)] = update_from_master(config)]
       ELSE fetch' = fetch
    /\ sup_pc' = "refresh"
    /\ UNCHANGED <<heap, relays, master_relays, config, rc, sources, threads,
                   time, rescan_relays, update_settings, slave_running, ctx, ub, obsVars>>

\* slave.c 837-843: relay_lock, update_relays on global.relays, the
\* configuration is released
RefreshLock ==
    /\ ub = "no"
    /\ sup_pc = "refresh"
    /\ RelayLockFree
    /\ LET u == update_relays(heap, relays, config.relay)
       IN  /\ heap' = u.heap
           /\ relays' = u.relay_list
           /\ config' = [config EXCEPT !.relay = u.updated]
           /\ ctx' = [ctx EXCEPT ![Supervisor] =
                         BeginSweep("refresh", u, relays, config.relay)]
    /\ held' = [held EXCEPT ![Supervisor] = <<"relay">>]
    /\ sup_pc' = "sweep"
    /\ UNCHANGED <<master_relays, rc, tableVars, sources, threads, interval, time,
                   max_interval, rescan_relays, update_settings, slave_running,
                   fetch, ub, obsVars>>

\* slave.c 846-849: the light rescan up to the wait for relay_lock
TickRescan ==
    /\ ub = "no"
    /\ sup_pc = "loop"
    /\ slave_running # 0
    /\ time < MaxTime
    /\ time' = time + 1
    /\ ~TickContinue
    /\ max_interval > TickInterval
    /\ interval' = TickInterval
    /\ sup_pc' = "rescan"
    /\ pending' = NoPending
    /\ since' = SinceTick("rescan")
    /\ UNCHANGED <<heap, relays, master_relays, config, rc, tableVars, sources,
                   threads, max_interval, rescan_relays, update_settings,
                   slave_running, fetch, ctx, held, ub, call>>

\* slave.c 849-851: relay_lock, then both lists are swept with nothing to free
RescanLock ==
    /\ ub = "no"
    /\ sup_pc = "rescan"
    /\ RelayLockFree
    /\ ctx' = [ctx EXCEPT ![Supervisor] =
                  [IdleCtx EXCEPT !.kind = "rescan",
                                  !.to_start = master_relays \o relays,
                                  !.stage = SweepStage(<<>>, master_relays \o relays)]]
    /\ held' = [held EXCEPT ![Supervisor] = <<"relay">>]
    /\ sup_pc' = "sweep"
    /\ UNCHANGED <<heap, relays, master_relays, config, rc, tableVars, sources,
                   threads, interval, time, max_interval, rescan_relays, update_settings,
                   slave_running, fetch, ub, obsVars>>

\* slave.c 844 / 852, 854-859: relay_lock released, the flags cleared
TickEnd ==
    /\ ub = "no"
    /\ sup_pc = "sweep"
    /\ ctx[Supervisor].stage = "done"
    /\ held' = [held EXCEPT ![Supervisor] = <<>>]
    /\ rescan_relays' = 0
    /\ update_settings' = 0
    /\ ctx' = [ctx EXCEPT ![Supervisor] = IdleCtx]
    /\ sup_pc' = "loop"
    /\ UNCHANGED <<heap, relays, master_relays, config, rc, tableVars, sources,
                   threads, interval, time, max_interval, slave_running, fetch, ub, obsVars>>

\* slave.c 863: global.master_relays is freed, without relay_lock
ShutdownMaster ==
    /\ ub = "no"
    /\ sup_pc = "shutdown1"
    /\ ctx[Supervisor].stage = "done"
    /\ sup_pc' = "shutdown2"
    /\ ctx' = [ctx EXCEPT ![Supervisor] =
                  [IdleCtx EXCEPT !.kind = "shutdown", !.to_free = master_relays,
                                  !.stage = SweepStage(master_relays, <<>>)]]
    /\ IF ~RelayLockFree /\ master_relays # <<>> THEN ub' = "race" ELSE ub' = ub
    /\ UNCHANGED <<heap, relays, master_relays, config, rc, tableVars, sources,
                   threads, interval, time, max_interval, rescan_relays, update_settings,
                   slave_running, fetch, held, obsVars>>

\* slave.c 865-867
SlaveThreadExit ==
    /\ ub = "no"
    /\ sup_pc = "shutdown2"
    /\ ctx[Supervisor].stage = "done"
    /\ sup_pc' = "done"
    /\ ctx' = [ctx EXCEPT ![Supervisor] = IdleCtx]
    /\ UNCHANGED <<heap, relays, master_relays, config, rc, tableVars, sources,
                   threads, interval, time, max_interval, rescan_relays, update_settings,
                   slave_running, fetch, held, ub, obsVars>>

(***************************************************************************)
(* Requests from the other threads of the server.                          *)
(***************************************************************************)
\* slave_shutdown (slave.c 160-164)
SlaveShutdown ==
    /\ ub = "no"
    /\ slave_running # 0
    /\ time < MaxTime
    /\ slave_running' = 0
    /\ UNCHANGED <<heap, relays, master_relays, config, rc, tableVars, sources,
                   threads, sup_pc, interval, time, max_interval, rescan_relays,
                   update_settings, fetch, ctx, held, ub, obsVars>>

\* slave_recheck_mounts (slave.c 122-126), called while the supervisor runs
SlaveRecheckMounts ==
    /\ ub = "no"
    /\ slave_running # 0
    /\ sup_pc \in {"loop", "config", "refresh", "rescan", "sweep"}
    /\ time < MaxTime
    /\ max_interval' = 0
    /\ update_settings' = 1
    /\ pending' = [pending EXCEPT !.recheck = TRUE]
    /\ UNCHANGED <<heap, relays, master_relays, config, rc, tableVars, sources,
                   threads, sup_pc, interval, time, rescan_relays, slave_running,
                   fetch, ctx, held, ub, call, since>>

\* slave_rescan (slave.c 132-135), called while the supervisor runs
SlaveRescan ==
    /\ ub = "no"
    /\ slave_running # 0
    /\ sup_pc \in {"loop", "config", "refresh", "rescan", "sweep"}
    /\ time < MaxTime
    /\ rescan_relays' = 1
    /\ pending' = [pending EXCEPT !.rescan = TRUE]
    /\ UNCHANGED <<heap, relays, master_relays, config, rc, tableVars, sources,
                   threads, sup_pc, interval, time, max_interval, update_settings,
                   slave_running, fetch, ctx, held, ub, call, since>>

\* relay lists of the configuration
ConfigLists ==
    {<<>>, <<BaseA>>, <<[BaseA EXCEPT !.server = <<"s", "2">>]>>,
     <<[BaseA EXCEPT !.on_demand = 1]>>}

\* master-update-interval settings of the configuration, in seconds
UpdateIntervals == {1, 2}

Init ==
    /\ heap = EmptyHeap
    /\ relays = <<>>
    /\ master_relays = <<>>
    /\ config \in {[BaseConfig EXCEPT !.relay = l, !.master_update_interval = i] :
                     l \in ConfigLists, i \in UpdateIntervals}
    /\ rc = RcIdle
    /\ slaves = <<>>
    /\ slave_count = 0
    /\ InitRun
    /\ InitObs

\* a run that ended in undefined behaviour is not followed any further: every
\* action asks for ub = "no"
Next ==
    \/ SlaveThreadStart
    \/ \E l \in ConfigLists : ConfigRead(l)
    \/ TickShutdown
    \/ TickIdle
    \/ TickRefresh
    \/ RefreshConfig
    \/ RefreshLock
    \/ TickRescan
    \/ RescanLock
    \/ TickEnd
    \/ ShutdownMaster
    \/ SlaveThreadExit
    \/ \E s \in Sweepers : FreeStep(s)
    \/ \E s \in Sweepers : FreeJoin(s)
    \/ \E s \in Sweepers : StartStep(s)
    \/ \E s \in Sweepers : StartOnDemand(s)
    \/ \E s \in Sweepers : StartJoin(s)
    \/ \E s \in Sweepers : StartJoinOnDemand(s)
    \/ \E t \in Tids : WorkerBegin(t)
    \/ \E t \in Tids : WorkerFail(t)
    \/ \E t \in Tids : WorkerPump(t)
    \/ \E t \in Tids : WorkerEnd(t)
    \/ \E f \in FetchIds, h \in MasterHeaders : FetchFail(f, h)
    \/ \E f \in FetchIds, h \in MasterHeaders, b \in MasterBodies : FetchCommit(f, h, b)
    \/ \E f \in FetchIds : FetchDone(f)
    \/ SlaveShutdown

Spec == Init /\ [][Next]_vars

(***************************************************************************)
(* The supervisor loop under requests from other threads: one static relay *)
(* in the configuration, a master that does not answer, no shutdown.       *)
(***************************************************************************)
InitTriggers ==
    /\ heap = EmptyHeap
    /\ relays = <<>>
    /\ master_relays = <<>>
    /\ config \in {[BaseConfig EXCEPT !.relay = <<BaseA>>, !.master_update_interval = i] :
                     i \in UpdateIntervals}
    /\ rc = RcIdle
    /\ slaves = <<>>
    /\ slave_count = 0
    /\ InitRun
    /\ InitObs

NextTriggers ==
    \/ SlaveThreadStart
    \/ TickIdle
    \/ TickRefresh
    \/ RefreshConfig
    \/ RefreshLock
    \/ TickRescan
    \/ RescanLock
    \/ TickEnd
    \/ \E s \in Sweepers : StartStep(s)
    \/ \E s \in Sweepers : StartJoin(s)
    \/ \E t \in Tids : WorkerBegin(t)
    \/ \E t \in Tids : WorkerFail(t)
    \/ \E t \in Tids : WorkerPump(t)
    \/ \E t \in Tids : WorkerEnd(t)
    \/ \E f \in FetchIds, h \in MasterHeaders : FetchFail(f, h)
    \/ SlaveRecheckMounts
    \/ SlaveRescan

SpecTriggers == InitTriggers /\ [][NextTriggers]_vars

\* a tick of the supervisor begins: time (&global.time) at slave.c 821
TickBegins == time' # time

\* C11: when slave_recheck_mounts has been called since the last tick began,
\* the tick that begins next is a full refresh (the supervisor goes on to
\* config_get_config at slave.c 829)
C11_RecheckForcesRefresh ==
    [][(pending.recheck /\ TickBegins) => sup_pc' = "config"]_vars

\* C12: when slave_rescan has been called since the last tick began, the
\* tick that begins next is a full refresh or a light rescan of both lists,
\* and does not go back to sleep
C12_RescanForcesSweep ==
    [][(pending.rescan /\ TickBegins) => sup_pc' \in {"config", "rescan"}]_vars

(***************************************************************************)
(* Properties of the running server.                                       *)
(***************************************************************************)
\* threads created for the record at id and not joined
Unjoined(id) ==
    {t \in Tids : threads[t].pc # "none" /\ ~threads[t].freed /\ threads[t].relay = id}

\* C1: relay_free is never applied to a record that has a worker thread
\* which was created and not yet joined (no thread is left pointing to a
\* freed record)
C1_NoFreeBeforeJoin == \A t \in Tids : ~threads[t].freed

\* C2: every relay record has at most one worker thread that was created
\* for it and not yet joined
C2_AtMostOneWorker == \A id \in RecIds : Cardinality(Unjoined(id)) <= 1

\* the records linked in global.relays and global.master_relays
Linked == relays \o master_relays

\* C3: no two records of global.relays together with global.master_relays
\* have the same localmount
C3_UniqueLocalmount ==
    \A i, j \in 1..Len(Linked) :
        (/\ heap[Linked[i]].alloc
         /\ heap[Linked[j]].alloc
         /\ heap[Linked[i]].localmount = heap[Linked[j]].localmount) => i = j

\* records that hold the source slot of mount m
Holders(m) == {id \in RecIds : heap[id].alloc /\ heap[id].source = m}

\* records update_relays copied anew in the sweep c
Fresh(c) == {n \in Range(c.list1) : n \notin Range(c.list0)}

\* C4: every reserved source slot is referenced by exactly one relay record
\* and no record references a slot that is not reserved; when a sweep after
\* update_relays has freed a record that held a slot, the replacement record
\* of the same localmount holds that slot at the end of the same sweep
C4_SourceSlotIntegrity ==
    /\ \A m \in SrcMounts :
          IF sources[m].reserved THEN Cardinality(Holders(m)) = 1 ELSE Holders(m) = {}
    /\ \A s \in Sweepers :
          (ctx[s].stage = "done" /\ ctx[s].kind \in {"refresh", "commit"}) =>
              \A e \in Range(ctx[s].cleanup_relays) : \A n \in Fresh(ctx[s]) :
                  (/\ ctx[s].old[e].source # NoSource
                   /\ heap[n].alloc
                   /\ heap[n].localmount = ctx[s].old[e].localmount)
                      => heap[n].source = ctx[s].old[e].source

\* C4 witness: a full refresh has freed a running record that held the slot
\* of its mount, and its replacement holds the slot at the end of the sweep
C4_Witness ==
    /\ ctx[Supervisor].stage = "done"
    /\ ctx[Supervisor].kind = "refresh"
    /\ \E e \in Range(ctx[Supervisor].cleanup_relays) : \E n \in Fresh(ctx[Supervisor]) :
          /\ ctx[Supervisor].old[e].source = MountA
          /\ ctx[Supervisor].old[e].running = 1
          /\ ~heap[e].alloc
          /\ heap[n].localmount = MountA
          /\ heap[n].source = MountA
          /\ sources[MountA].reserved

\* C6: no thread acquires the config lock while it holds relay_lock (the
\* source-tree lock is taken and released inside one step, with nothing
\* acquired under it)
C6_LockOrder ==
    \A s \in Sweepers : \A i, j \in DOMAIN held[s] :
        i < j => ~(held[s][i] = "relay" /\ held[s][j] = "config")

\* the desired records of the sweep c that equal the record e of the old
\* list in localmount, server, port, mount and mp3metadata
Matches(c, e) ==
    {k \in DOMAIN c.desired :
        /\ c.desired[k].localmount = c.old[e].localmount
        /\ MaterialEq(c.desired[k], c.old[e])}

\* e is the only old record and has the only desired record of its localmount
AloneInSweep(c, e) ==
    /\ \A f \in Range(c.list0) : c.old[f].localmount = c.old[e].localmount => f = e
    /\ \A k, l \in DOMAIN c.desired :
          (/\ c.desired[k].localmount = c.old[e].localmount
           /\ c.desired[l].localmount = c.old[e].localmount) => k = l

\* the records C9 speaks about
KeptBySweep(c) ==
    {e \in Range(c.list0) : Matches(c, e) # {} /\ AloneInSweep(c, e)}

\* the step is update_relays of sweeper s (RefreshLock or FetchCommit): a
\* record C9 speaks about is not in the cleanup list and only its on_demand
\* is written, to the desired record's value
ReconcileKeeps(s) ==
    (ctx[s].stage = "idle" /\ ctx'[s].kind \in {"refresh", "commit"}) =>
        \A e \in KeptBySweep(ctx'[s]) :
            /\ e \notin Range(ctx'[s].cleanup_relays)
            /\ e \in Range(ctx'[s].list1)
            /\ heap'[e] = [heap[e] EXCEPT !.on_demand =
                              ctx'[s].desired[Min(Matches(ctx'[s], e))].on_demand]

\* the step is one that sweeper s takes in check_relay_stream on a record
\* C9 speaks about
ApplyStepOnKept(s) ==
    /\ ctx[s].kind \in {"refresh", "commit"}
    /\ ctx[s].stage \in {"sweep", "od", "cjoin", "jod"}
    /\ ctx[s].to_free = <<>>
    /\ ctx'[s] # ctx[s]
    /\ Head(ctx[s].to_start) \in KeptBySweep(ctx[s])

\* C9 as stated: reconcile keeps the record and writes only on_demand, and
\* apply leaves its source handle, thread, running and cleanup alone and
\* neither stops nor joins its worker
C9_KeptUntouched ==
    [][\A s \in Sweepers :
          /\ ReconcileKeeps(s)
          /\ ApplyStepOnKept(s) =>
                /\ heap'[Head(ctx[s].to_start)] = heap[Head(ctx[s].to_start)]
                /\ threads' = threads]_vars

\* C9 as amended: reconcile keeps the record and writes only on_demand;
\* the call of check_relay_stream on the record writes nothing to the
\* record, the threads or the source tree when it finds the record with a
\* source, running = 1 and cleanup = 0
C9_KeptLiveUntouched ==
    [][\A s \in Sweepers :
          /\ ReconcileKeeps(s)
          /\ (/\ ApplyStepOnKept(s)
              /\ ctx[s].stage = "sweep"
              /\ heap[Head(ctx[s].to_start)].source # NoSource
              /\ heap[Head(ctx[s].to_start)].running # 0
              /\ heap[Head(ctx[s].to_start)].cleanup = 0) =>
                /\ heap'[Head(ctx[s].to_start)] = heap[Head(ctx[s].to_start)]
                /\ threads' = threads
                /\ sources' = sources]_vars

\* C9 witness: a full refresh has kept a record whose worker is pumping and
\* changed its on_demand; nothing else of the record has changed
C9_Witness ==
    /\ ctx[Supervisor].stage = "done"
    /\ ctx[Supervisor].kind = "refresh"
    /\ \E e \in KeptBySweep(ctx[Supervisor]) :
          /\ heap[e].on_demand # ctx[Supervisor].old[e].on_demand
          /\ heap[e] = [ctx[Supervisor].old[e] EXCEPT !.on_demand = heap[e].on_demand]
          /\ heap[e].running = 1
          /\ heap[e].cleanup = 0
          /\ heap[e].thread # NoThread
          /\ threads[heap[e].thread].pc = "pump"

\* d differs from o in exactly one of server, port, mount and mp3metadata
\* and in nothing else that is configured
OneMaterialChange(d, o) ==
    /\ Cardinality({f \in {"server", "port", "mount", "mp3metadata"} : d[f] # o[f]}) = 1
    /\ d.localmount = o.localmount
    /\ d.username = o.username
    /\ d.password = o.password
    /\ d.on_demand = o.on_demand
    /\ d.enable = o.enable

\* the case of C10: a full refresh of one enabled, running relay that is
\* not on demand, with one material change
RestartCase(c) ==
    /\ c.kind = "refresh"
    /\ Len(c.list0) = 1
    /\ Len(c.desired) = 1
    /\ c.old[c.list0[1]].enable = 1
    /\ c.old[c.list0[1]].on_demand = 0
    /\ c.old[c.list0[1]].source # NoSource
    /\ c.old[c.list0[1]].running = 1
    /\ OneMaterialChange(c.desired[1], c.old[c.list0[1]])

\* C10: in that case the cleanup list is the old record alone, and the sweep
\* stops the old worker, joins it, frees the old record, and only then
\* reserves the slot for the replacement and spawns its worker, once
C10_RestartInOrder ==
    (ctx[Supervisor].stage = "done" /\ RestartCase(ctx[Supervisor])) =>
        LET c == ctx[Supervisor]
            e == c.list0[1]
        IN  /\ c.cleanup_relays = <<e>>
            /\ Len(c.list1) = 1
            /\ c.list1[1] # e
            /\ c.log = << <<"stop", e>>, <<"join", e>>, <<"free", e>>,
                          <<"reserve", c.list1[1]>>, <<"spawn", c.list1[1]>> >>

\* C10 witness: such a refresh has ended, the replacement holds the slot and
\* has its worker
C10_Witness ==
    /\ ctx[Supervisor].stage = "done"
    /\ RestartCase(ctx[Supervisor])
    /\ Len(ctx[Supervisor].log) = 5
    /\ heap[ctx[Supervisor].list1[1]].source = MountA
    /\ heap[ctx[Supervisor].list1[1]].thread # NoThread

\* a worker thread is created in this step (thread_create at slave.c 436)
WorkerCreated(t) == threads'[t].pc = "created" /\ threads[t].pc # "created"

\* C13: once slave_shutdown has set slave_running to 0 no thread creates a
\* relay worker any more
C13_NoSpawnAfterShutdown ==
    [][slave_running = 0 => \A t \in Tids : ~WorkerCreated(t)]_vars

\* C14: when _slave_thread has returned from its shutdown pass, no worker
\* thread is left unjoined and no record of global.relays or
\* global.master_relays is left allocated
C14_ShutdownJoinsAll ==
    sup_pc = "done" =>
        /\ \A t \in Tids : threads[t].pc = "none"
        /\ \A id \in Range(Linked) : ~heap[id].alloc

\* thread s works on a record of a relay list in this step: a step of
\* relay_check_streams
SweepsRecord(s) ==
    /\ ctx[s].stage \in {"sweep", "fjoin", "od", "cjoin", "jod"}
    /\ ctx'[s] # ctx[s]

\* C15: every step of a sweep over global.relays or global.master_relays
\* is taken by a thread that holds relay_lock
C15_SweepUnderRelayLock ==
    [][\A s \in Sweepers : SweepsRecord(s) => "relay" \in Range(held[s])]_vars

(***************************************************************************)
(* The request a relay worker writes to its upstream (slave.c 241-291).    *)
(* A header is a tuple of its name and its values; an empty "%s" of the    *)
(* format adds no header.                                                  *)
(***************************************************************************)
ICECAST_VERSION_STRING == "Icecast"

\* util_base64_encode of "username:password"
util_base64_encode(username, password) == <<"base64", username, password>>

\* slave.c 241-275: auth_header and redirect_header, <<>> for ""
RequestHeaders(relay, cfg) ==
    IF relay.username # NULL /\ relay.password # NULL
    THEN [auth |-> <<<<"Authorization", "Basic",
                       util_base64_encode(relay.username, relay.password)>>>>,
          redirect |-> IF cfg.master_redirect_port # 0
                       THEN <<<<"ice-redirect", cfg.hostname, cfg.master_redirect_port>>>>
                       ELSE <<>>]
    ELSE [auth |-> <<>>, redirect |-> <<>>]

\* slave.c 282-291: the sock_write of the GET request
relay_request(relay, cfg) ==
    <<<<"GET", relay.mount>>, <<"User-Agent", ICECAST_VERSION_STRING>>>>
    \o (IF relay.mp3metadata # 0 THEN <<<<"Icy-MetaData", 1>>>> ELSE <<>>)
    \o RequestHeaders(relay, cfg).redirect
    \o RequestHeaders(relay, cfg).auth

\* credentials, redirect ports and host names of the runs
Usernames == {NULL, "u"}
Passwords == {NULL, "p"}
RedirectPorts == {0, 2, 8001}
Hostnames == {"h1", "h2"}

\* the worker of the record at address 1 writes its request
WorkerRequest ==
    /\ call = NoCall
    /\ call' = [name |-> "start_relay_stream",
                request |-> relay_request(heap[1], config)]
    /\ UNCHANGED <<heap, relays, master_relays, config, rc, tableVars, runVars, pending, since>>

InitRequest ==
    /\ \E u \in Usernames, p \in Passwords, m \in SrcMounts, i \in {0, 1} :
          heap = [EmptyHeap EXCEPT ![1] = MkRelay(<<"s", "1">>, 8000, m, m, u, p, i, 0, 1)]
    /\ relays = <<1>>
    /\ master_relays = <<>>
    /\ \E r \in RedirectPorts, h \in Hostnames :
          config = [BaseConfig EXCEPT !.master_redirect_port = r, !.hostname = h]
    /\ rc = RcIdle
    /\ slaves = <<>>
    /\ slave_count = 0
    /\ InitRun
    /\ InitObs

NextRequest == WorkerRequest

SpecRequest == InitRequest /\ [][NextRequest]_vars

HasHeader(request, name) == \E i \in DOMAIN request : request[i][1] = name

\* C16: the request of a worker has an ice-redirect header exactly when the
\* configuration's master_redirect_port is not 0, whatever the relay's
\* username and password are
C16_RedirectHeaderIffPort ==
    call.name = "start_relay_stream" =>
        (HasHeader(call.request, "ice-redirect") <=> config.master_redirect_port # 0)

\* the streamlist thread f comes out of curl_easy_perform in this step with
\* a response whose status is not 200
FetchNot200(f) ==
    /\ fetch[f].pc = "fetching"
    /\ fetch'[f].pc # "fetching"
    /\ fetch'[f].code # 200

\* C17: a streamlist thread whose response has no 200 status line returns
\* without a sweep of its own and leaves the relay records, both lists, the
\* worker threads and the source tree as they were
C17_Non200CommitsNothing ==
    [][\A f \in FetchIds :
          FetchNot200(f) =>
              /\ fetch'[f].pc = "none"
              /\ ctx'[f] = IdleCtx
              /\ UNCHANGED <<heap, relays, master_relays, threads, sources>>]_vars

\* C17 witness: a streamlist thread was answered 404 while
\* global.master_relays holds a record with a worker from an earlier answer
C17_Witness ==
    \E f \in FetchIds :
        /\ fetch[f].pc = "none"
        /\ fetch[f].code = 404
        /\ master_relays # <<>>
        /\ \E t \in Tids : threads[t].pc \in {"connect", "pump"}
                           /\ threads[t].relay \in Range(master_relays)

(***************************************************************************)
(* check_relay_stream on one record (slave.c 380-440): the record at       *)
(* address 1 is the only one of global.relays, no worker exists, and the   *)
(* call runs from its entry to its return.                                 *)
(***************************************************************************)
\* the call: the on-demand branch follows when crs_top stops at it
CheckRelayStream ==
    /\ call.name = "env"
    /\ LET top == crs_top(World, 1)
           res == IF top.stage = "od" THEN crs_od(top.w, 1, call.fb) ELSE top
       IN  /\ res.ok
           /\ SetWorld(res.w)
    /\ call' = [call EXCEPT !.name = "check_relay_stream"]
    /\ UNCHANGED <<relays, master_relays, config, rc, tableVars, sup_pc, interval, time,
                   max_interval, slave_running, fetch, ctx, held, pending, since>>

\* the record before the call: with its source reserved (on_demand_req as
\* the listeners left it), or without a source, the mount free or taken
InitOnDemand ==
    /\ \E en \in {0, 1}, od \in {0, 1}, has \in BOOLEAN, taken \in BOOLEAN, req \in {0, 1} :
          /\ has => taken
          /\ ~has => req = 0
          /\ heap = [EmptyHeap EXCEPT ![1] =
                        [MkRelay(<<"s", "1">>, 8000, MountA, MountA, NULL, NULL, 1, od, en)
                            EXCEPT !.source = IF has THEN MountA ELSE NoSource]]
          /\ sources = [m \in SrcMounts |->
                           IF m = MountA /\ taken
                           THEN [NoSourceRec EXCEPT !.reserved = TRUE, !.on_demand = od,
                                                    !.on_demand_req = req]
                           ELSE NoSourceRec]
          /\ \E fb \in FallbackEnv : call = [name |-> "env", fb |-> fb, req |-> req]
    /\ relays = <<1>>
    /\ master_relays = <<>>
    /\ config = BaseConfig
    /\ rc = RcIdle
    /\ slaves = <<>>
    /\ slave_count = 0
    /\ threads = [t \in Tids |-> NoThreadRec]
    /\ sup_pc = "sweep"
    /\ interval = 0
    /\ time = 0
    /\ max_interval = 1
    /\ rescan_relays = 0
    /\ update_settings = 0
    /\ slave_running = 1
    /\ fetch = [f \in FetchIds |-> NoFetch]
    /\ ctx = [s \in Sweepers |-> IdleCtx]
    /\ held = [s \in Sweepers |-> IF s = Supervisor THEN <<"relay">> ELSE <<>>]
    /\ ub = "no"
    /\ pending = NoPending
    /\ since = NoSince

NextOnDemand == CheckRelayStream

SpecOnDemand == InitOnDemand /\ [][NextOnDemand]_vars

\* the call was made on an enabled on-demand record that is not running and
\* has its source
OnDemandCase ==
    /\ call.name = "check_relay_stream"
    /\ heap[1].enable # 0 /\ heap[1].on_demand # 0 /\ heap[1].running = 0
    /\ heap[1].source # NoSource

\* the call has created a worker for the record
Spawned == \E t \in Tids : threads[t].pc = "created" /\ threads[t].relay = 1

\* demand through the override: the source has fallback_mount and
\* fallback_override, and the fallback is running with at least one listener
DemandByOverride ==
    /\ call.fb.fallback_mount # NULL /\ call.fb.fallback_override # 0
    /\ call.fb.found /\ call.fb.running # 0 /\ call.fb.listeners >= 1

\* C18: on an enabled, not running on-demand record with a source the call
\* creates a worker exactly when on_demand_req is set at slave.c 432, and
\* that is the case exactly when it was set before the call or the source
\* has fallback_mount and fallback_override and the fallback is found
\* running with a listener; otherwise the record is left without a thread
C18_SpawnIffDemand ==
    OnDemandCase =>
        LET req == sources[heap[1].source].on_demand_req
        IN  /\ Spawned <=> req # 0
            /\ req # 0 <=> (call.req # 0 \/ DemandByOverride)
            /\ ~Spawned => heap[1].thread = NoThread

\* C18 witness: no listener had asked for the stream, the override found a
\* running fallback with two listeners, and the worker was created
C18_Witness ==
    /\ OnDemandCase
    /\ call.req = 0
    /\ call.fb.listeners = 2
    /\ Spawned

(***************************************************************************)
(* slave_redirect (slave.c 171-210).  The index is computed at line 180 as *)
(* (int) (((float)global.slave_count)*rand()/(RAND_MAX+1.0)): the product  *)
(* is a float product, so rand() is converted to float first, and the      *)
(* quotient by RAND_MAX+1.0 = 2^31 is a double.  A float is kept as        *)
(* mantissa m and exponent e with value m * 2^e, m below 2^FLT_MANT_DIG.   *)
(* A build that evaluates float expressions in extended precision          *)
(* (FLT_EVAL_METHOD 2) computes the product exactly.                       *)
(***************************************************************************)
RAND_MAX == 2147483647
FLT_MANT_DIG == 24

RECURSIVE Pow2(_)
Pow2(n) == IF n = 0 THEN 1 ELSE 2 * Pow2(n - 1)

\* number of binary digits of n, for 0 < n <= RAND_MAX
BitLen(n) == IF n >= Pow2(30) THEN 31 ELSE Min({k \in 0..30 : n < Pow2(k)})

\* conversion of an int n, 0 <= n <= RAND_MAX, to float: round to nearest,
\* ties to even
ToFloat(n) ==
    IF n < Pow2(FLT_MANT_DIG) THEN [m |-> n, e |-> 0]
    ELSE LET e == BitLen(n) - FLT_MANT_DIG
             q == n \div Pow2(e)
             r == n % Pow2(e)
             half == Pow2(e - 1)
             m == IF r > half \/ (r = half /\ q % 2 = 1) THEN q + 1 ELSE q
         IN  IF m = Pow2(FLT_MANT_DIG)
             THEN [m |-> Pow2(FLT_MANT_DIG - 1), e |-> e + 1]
             ELSE [m |-> m, e |-> e]

\* float product of a small count with a float: the exact product rounded
FloatMul(count, f) ==
    LET p == ToFloat(count * f.m)
    IN  [m |-> p.m, e |-> p.e + f.e]

\* (int) (f / (RAND_MAX+1.0)): the quotient by 2^31 is exact in a double
TruncDiv31(f) ==
    IF f.e >= 31 THEN f.m * Pow2(f.e - 31)
    ELSE IF 31 - f.e >= FLT_MANT_DIG THEN 0
    ELSE f.m \div Pow2(31 - f.e)

\* slave.c 180 in float arithmetic
WhichFloat(count, r) == TruncDiv31(FloatMul(count, ToFloat(r)))

\* slave.c 180 with the product exact: floor (count * r / 2^31)
WhichExact(count, r) ==
    (count * (r \div Pow2(16)) + ((count * (r % Pow2(16))) \div Pow2(16))) \div Pow2(15)

\* "%d" of a non-negative int, as characters
RECURSIVE itoa(_)
itoa(n) == IF n < 10 THEN <<Digits[n + 1]>> ELSE itoa(n \div 10) \o <<Digits[(n % 10) + 1]>>

\* slave.c 193-201: snprintf (location, len, "http://%s:%d%s", ...) writes at
\* most len - 1 characters
Location(slave, mountpoint) ==
    LET len == Len(mountpoint) + Len(slave.server) + 13
        text == <<"h", "t", "t", "p", ":", "/", "/">> \o slave.server \o <<":">>
                \o itoa(slave.port) \o mountpoint
    IN  SubSeq(text, 1, Min({Len(text), len - 1}))

\* slave_redirect: the return value, the responses sent to the client, and
\* whether line 187 reads through a NULL slave
slave_redirect(tab, mountpoint, r, exact) ==
    IF tab.slave_count # 0
    THEN LET which == IF exact THEN WhichExact(tab.slave_count, r)
                      ELSE WhichFloat(tab.slave_count, r)
         IN  IF which >= Len(tab.slaves)
             THEN [ret |-> 0, sent |-> <<>>, null |-> TRUE]
             ELSE [ret |-> 1,
                   sent |-> <<[status |-> 302,
                               location |-> Location(tab.slaves[which + 1], mountpoint)]>>,
                   null |-> FALSE]
    ELSE [ret |-> 0, sent |-> <<>>, null |-> FALSE]

\* slave hosts, values of rand() and mount points of the runs
RedirectHosts ==
    {[server |-> <<"x">>, port |-> 80, count |-> 1],
     [server |-> <<"y", "y">>, port |-> 8000, count |-> 2],
     [server |-> <<"z">>, port |-> 10000, count |-> 1]}

RandValues == {0, 1, Pow2(30), RAND_MAX - 64, RAND_MAX - 63, RAND_MAX}

Mountpoints == {MountA, <<"/", "l", "i", "v", "e">>}

\* tables of distinct hosts
RedirectTables ==
    {t \in SeqsUpTo(RedirectHosts, Cardinality(RedirectHosts)) :
        \A i, j \in DOMAIN t : t[i] = t[j] => i = j}

SlaveRedirect ==
    /\ call.name = "env"
    /\ LET res == slave_redirect(SlaveTab, call.mountpoint, call.rand, call.exact)
       IN  /\ call' = [call EXCEPT !.name = "slave_redirect", !.ret = res.ret,
                                   !.sent = res.sent]
           /\ ub' = IF res.null THEN "null" ELSE ub
    /\ UNCHANGED <<heap, relays, master_relays, config, rc, tableVars, sources, threads,
                   sup_pc, interval, time, max_interval, rescan_relays, update_settings,
                   slave_running, fetch, ctx, held, pending, since>>

InitRedirect ==
    /\ heap = EmptyHeap
    /\ relays = <<>>
    /\ master_relays = <<>>
    /\ config = BaseConfig
    /\ rc = RcIdle
    /\ \E t \in RedirectTables :
          /\ slaves = t
          /\ slave_count = Len(t)
    /\ InitRun
    /\ pending = NoPending
    /\ since = NoSince
    /\ \E m \in Mountpoints, r \in RandValues, x \in BOOLEAN :
          call = [name |-> "env", mountpoint |-> m, rand |-> r, exact |-> x,
                  ret |-> 0, sent |-> <<>>]

NextRedirect == SlaveRedirect

SpecRedirect == InitRedirect /\ [][NextRedirect]_vars

\* the text http://<server>:<port><mountpoint>
RedirectText(slave, mountpoint) ==
    <<"h", "t", "t", "p", ":", "/", "/">> \o slave.server \o <<":">>
    \o itoa(slave.port) \o mountpoint

\* C19: with a non-empty table slave_redirect returns 1 and sends one 302
\* whose Location is http://<server>:<port><mountpoint> of a linked entry,
\* the walk never ending past the last entry; with an empty table it
\* returns 0 and sends nothing
C19_RedirectToLinkedHost ==
    call.name = "slave_redirect" =>
        /\ ub = "no"
        /\ IF slave_count > 0
           THEN /\ call.ret = 1
                /\ Len(call.sent) = 1
                /\ call.sent[1].status = 302
                /\ \E i \in 1..Len(slaves) :
                      call.sent[1].location = RedirectText(slaves[i], call.mountpoint)
           ELSE call.ret = 0 /\ call.sent = <<>>

(***************************************************************************)
(* Reference counting of the slave host table.                             *)
(***************************************************************************)
\* n calls of slave_host_add with the same header
RECURSIVE AddN(_, _, _)
AddN(tab, header, n) == IF n = 0 THEN tab ELSE AddN(slave_host_add(tab, header), header, n - 1)

\* n calls of slave_host_remove with the same header
RECURSIVE RemoveN(_, _, _)
RemoveN(tab, header, n) ==
    IF n = 0 THEN tab ELSE RemoveN(slave_host_remove(tab, header), header, n - 1)

\* the entry a well-formed header names, with count n
EntryOf(header, n) ==
    LET separator == strchr(header, ":")
    IN  [server |-> SubSeq(header, 1, separator - 1),
         port |-> atoi(SubSeq(header, separator + 1, Len(header))),
         count |-> n]

\* the host of a well-formed header is not in the table
Absent(header) ==
    find_slave_host(slaves, EntryOf(header, 1).server, EntryOf(header, 1).port) = 0

\* C20: from any table the server can have, for a header with ':' whose
\* host is not in the table: n adds make one entry with count n at the head
\* and slave_count one more, k < n removes leave it linked with count n - k,
\* the n-th remove gives the table before the adds; a header without ':' or
\* no header changes nothing, and neither does a remove of an absent host
C20_RefCounted ==
    \A h \in Headers :
        IF h = NoHeader \/ strchr(h, ":") = 0
        THEN /\ slave_host_add(SlaveTab, h) = SlaveTab
             /\ slave_host_remove(SlaveTab, h) = SlaveTab
        ELSE Absent(h) =>
                /\ slave_host_remove(SlaveTab, h) = SlaveTab
                /\ \A n \in 1..MaxCount :
                      LET t == AddN(SlaveTab, h, n)
                      IN  /\ t = [slaves |-> <<EntryOf(h, n)>> \o slaves,
                                  slave_count |-> slave_count + 1]
                          /\ \A k \in 1..(n - 1) :
                                RemoveN(t, h, k) =
                                    [slaves |-> <<EntryOf(h, n - k)>> \o slaves,
                                     slave_count |-> slave_count + 1]
                          /\ RemoveN(t, h, n) = SlaveTab

\* C20 witness: x:1 was added twice and is the only host, y:1 is absent: the
\* table is the one two adds of x:1 make from the empty table, and two
\* removes empty it again
C20_Witness ==
    /\ SlaveTab = AddN([slaves |-> <<>>, slave_count |-> 0], <<"x", ":", "1">>, 2)
    /\ slaves = <<[server |-> <<"x">>, port |-> 1, count |-> 2]>>
    /\ Absent(<<"y", ":", "1">>)
    /\ RemoveN(SlaveTab, <<"x", ":", "1">>, 2) = [slaves |-> <<>>, slave_count |-> 0]

(***************************************************************************)
(* The start decision of check_relay_stream (slave.c 380-438) under the    *)
(* supervisor's sweeps: static relays only, no master configured, a local  *)
(* mount that does not begin with '/', a disabled relay, an on-demand      *)
(* relay, and a mount that a source client may hold already.               *)
(***************************************************************************)
\* relays of the configuration: /a, /b, a local mount without '/', a
\* disabled relay, an on-demand relay
SweepTemplates ==
    {BaseA, BaseB, [BaseA EXCEPT !.localmount = <<"a">>],
     [BaseA EXCEPT !.enable = 0], [BaseB EXCEPT !.on_demand = 1]}

\* foreign: a source client holds /b before the supervisor starts
InitSweep ==
    /\ heap = EmptyHeap
    /\ relays = <<>>
    /\ master_relays = <<>>
    /\ \E l \in SeqsUpTo(SweepTemplates, MaxLen) :
          config = [BaseConfig EXCEPT !.relay = l, !.master_server = NoHeader,
                                      !.master_update_interval = 2]
    /\ rc = RcIdle
    /\ slaves = <<>>
    /\ slave_count = 0
    /\ \E foreign \in BOOLEAN :
          sources = [m \in SrcMounts |->
                        IF m = MountB /\ foreign
                        THEN [NoSourceRec EXCEPT !.reserved = TRUE]
                        ELSE NoSourceRec]
    /\ threads = [t \in Tids |-> NoThreadRec]
    /\ sup_pc = "start"
    /\ interval = 0
    /\ time = 0
    /\ max_interval = 0
    /\ rescan_relays = 0
    /\ update_settings = 0
    /\ slave_running = 1
    /\ fetch = [f \in FetchIds |-> NoFetch]
    /\ ctx = [s \in Sweepers |-> IdleCtx]
    /\ held = [s \in Sweepers |-> <<>>]
    /\ ub = "no"
    /\ InitObs

NextSweep ==
    \/ SlaveThreadStart
    \/ TickIdle
    \/ TickRefresh
    \/ RefreshConfig
    \/ RefreshLock
    \/ TickRescan
    \/ RescanLock
    \/ TickEnd
    \/ \E s \in Sweepers : StartStep(s)
    \/ \E s \in Sweepers : StartOnDemand(s)
    \/ \E s \in Sweepers : StartJoin(s)
    \/ \E s \in Sweepers : StartJoinOnDemand(s)
    \/ \E t \in Tids : WorkerBegin(t)
    \/ \E t \in Tids : WorkerFail(t)
    \/ \E t \in Tids : WorkerPump(t)
    \/ \E t \in Tids : WorkerEnd(t)

SpecSweep == InitSweep /\ [][NextSweep]_vars

\* sweeper s enters check_relay_stream on the head of its list in this step
\* and takes the decision of slave.c 382-406
Decides(s) ==
    /\ ctx[s].stage = "sweep"
    /\ ctx[s].to_free = <<>>
    /\ ctx[s].to_start # <<>>
    /\ ctx'[s] # ctx[s]

\* the local mount begins with '/'
ValidMount(r) == r.localmount # <<>> /\ Head(r.localmount) = "/"

\* the decision finds the record at id fit for a worker: it holds a reserved
\* source slot, its own from before or reserved by this call on a valid and
\* free local mount, enable is set and running is not
Eligible(id) ==
    /\ heap[id].alloc
    /\ heap[id].enable # 0
    /\ heap[id].running = 0
    /\ heap'[id].source # NoSource
    /\ sources'[heap'[id].source].reserved
    /\ heap[id].source = NoSource =>
          /\ ValidMount(heap[id])
          /\ ~sources[heap[id].localmount].reserved
          /\ heap'[id].source = heap[id].localmount

\* the decision finds the record at id unfit: an invalid local mount or a
\* refused reservation on a record without a source, or enable == 0
Rejected(id) ==
    \/ heap[id].source = NoSource /\ ~ValidMount(heap[id])
    \/ heap[id].source = NoSource /\ ValidMount(heap[id])
          /\ sources[heap[id].localmount].reserved
    \/ heap[id].enable = 0

\* C21: a worker is created only in a call of check_relay_stream whose
\* decision found the record with a reserved source slot, enable set and
\* running unset (for an on-demand record the decision precedes the
\* creation by the on-demand branch); a call that finds an invalid local
\* mount, a refused reservation or enable == 0 creates no worker, leaves the
\* record without a thread, and the sweep goes on with the rest of the list
C21_SpawnOnlyIfEligible ==
    [][\A s \in Sweepers :
          LET id == Head(ctx[s].to_start)
          IN  /\ (ctx'[s] # ctx[s] /\ \E t \in Tids : WorkerCreated(t)) =>
                    /\ ctx[s].stage \in {"sweep", "od"}
                    /\ ctx[s].to_free = <<>>
                    /\ \A t \in Tids : WorkerCreated(t) => threads'[t].relay = id
                    /\ ctx[s].stage = "sweep" => Eligible(id)
                    /\ ctx[s].stage = "od" =>
                          /\ heap[id].source # NoSource
                          /\ sources[heap[id].source].reserved
                          /\ heap[id].enable # 0
              /\ (Decides(s) /\ ctx'[s].stage = "od") => Eligible(id)
              /\ (Decides(s) /\ heap[id].alloc /\ Rejected(id)) =>
                    /\ threads' = threads
                    /\ heap'[id].thread = NoThread
                    /\ ctx'[s].to_start = Tail(ctx[s].to_start)
                    /\ ctx'[s].stage = SweepStage(<<>>, Tail(ctx[s].to_start))]_vars

\* C21 witness: a full refresh of two relays has ended; the record swept
\* first asked for /b, which a source client holds, and was left without
\* source and thread; the record swept after it got /a and a worker
C21_Witness ==
    /\ ctx[Supervisor].stage = "done"
    /\ ctx[Supervisor].kind = "refresh"
    /\ Len(relays) = 2
    /\ heap[relays[1]].localmount = MountB
    /\ heap[relays[1]].source = NoSource
    /\ heap[relays[1]].thread = NoThread
    /\ sources[MountB].reserved
    /\ heap[relays[2]].source = MountA
    /\ heap[relays[2]].thread # NoThread
    /\ threads[heap[relays[2]].thread].relay = relays[2]

(***************************************************************************)
(* The supervisor that keeps running: no shutdown, no static relay, a      *)
(* master whose stream list is /a whenever it answers 200, and no request  *)
(* from other threads.  global.time is followed modulo MaxTime + 1, so the *)
(* loop of _slave_thread goes on for ever.  The threads are scheduled      *)
(* fairly: the supervisor, a streamlist thread (curl_easy_perform returns, *)
(* CURLOPT_TIMEOUT at slave.c 730) and a worker up to the point where it   *)
(* fails or calls source_main (sock_connect_wto at 232 has a timeout);     *)
(* source_main itself may run for ever.                                    *)
(***************************************************************************)
\* the clock wraps
ClockWrap ==
    /\ ub = "no"
    /\ time = MaxTime
    /\ time' = 0
    /\ UNCHANGED <<heap, relays, master_relays, config, rc, tableVars, sources,
                   threads, sup_pc, interval, max_interval, rescan_relays,
                   update_settings, slave_running, fetch, ctx, held, ub, obsVars>>

\* the stream list of the master
LiveBody == <<<<>>, MountA>>

InitLive ==
    /\ heap = EmptyHeap
    /\ relays = <<>>
    /\ master_relays = <<>>
    /\ config \in {[BaseConfig EXCEPT !.master_update_interval = i] : i \in UpdateIntervals}
    /\ rc = RcIdle
    /\ slaves = <<>>
    /\ slave_count = 0
    /\ InitRun
    /\ InitObs

\* a step of _slave_thread
SupervisorStep ==
    \/ SlaveThreadStart
    \/ TickIdle
    \/ TickRefresh
    \/ RefreshConfig
    \/ RefreshLock
    \/ TickRescan
    \/ RescanLock
    \/ TickEnd
    \/ StartStep(Supervisor)
    \/ StartJoin(Supervisor)
    \/ ClockWrap

\* a step of the streamlist thread f
FetchStep(f) ==
    \/ \E h \in MasterHeaders : FetchFail(f, h)
    \/ \E h \in MasterHeaders : FetchCommit(f, h, LiveBody)
    \/ StartStep(f)
    \/ StartJoin(f)
    \/ FetchDone(f)

\* a step of the worker t before source_main
WorkerStartStep(t) == WorkerBegin(t) \/ WorkerFail(t) \/ WorkerPump(t)

NextLive ==
    \/ SupervisorStep
    \/ \E f \in FetchIds : FetchStep(f)
    \/ \E t \in Tids : WorkerStartStep(t)
    \/ \E t \in Tids : WorkerEnd(t)

SpecLive ==
    /\ InitLive
    /\ [][NextLive]_vars
    /\ WF_vars(SupervisorStep)
    /\ \A f \in FetchIds : WF_vars(FetchStep(f))
    /\ \A t \in Tids : WF_vars(WorkerStartStep(t))

\* the worker t returns from start_relay_stream in this step
WorkerReturns(t) ==
    /\ threads[t].pc \in {"connect", "pump"}
    /\ threads'[t].pc \notin {"connect", "pump"}

\* the record at id waits for the join of its worker
AwaitsJoin(id) ==
    heap[id].alloc /\ heap[id].cleanup # 0 /\ heap[id].thread # NoThread

\* a sweep has joined the worker of the record at id
Joined(id) ==
    heap[id].thread = NoThread /\ heap[id].cleanup = 0 /\ heap[id].running = 0

\* C22: a worker that returns, after source_main or on a failure before it,
\* leaves cleanup and rescan_relays set, and every record that waits for
\* the join of its worker is eventually joined by a sweep, which resets
\* thread, cleanup and running; no rescan request and no commit of a
\* streamlist thread is needed for it
C22_WorkerEventuallyJoined ==
    /\ [][\A t \in Tids : (WorkerReturns(t) /\ ub' = "no") =>
             /\ heap'[threads[t].relay].cleanup = 1
             /\ rescan_relays' = 1]_vars
    /\ \A id \in RecIds : AwaitsJoin(id) ~> (Joined(id) \/ ub # "no")

(***************************************************************************)
(* The spacing of the full refreshes: the supervisor loop with no relay    *)
(* and no master configured, under slave_rescan and slave_recheck_mounts,  *)
(* followed for ever (global.time modulo MaxTime + 1).                     *)
(***************************************************************************)
InitTicks ==
    /\ heap = EmptyHeap
    /\ relays = <<>>
    /\ master_relays = <<>>
    /\ config \in {[BaseConfig EXCEPT !.master_server = NoHeader,
                                      !.master_update_interval = i] :
                     i \in UpdateIntervals}
    /\ rc = RcIdle
    /\ slaves = <<>>
    /\ slave_count = 0
    /\ InitRun
    /\ InitObs

NextTicks ==
    \/ SlaveThreadStart
    \/ TickIdle
    \/ TickRefresh
    \/ RefreshConfig
    \/ RefreshLock
    \/ TickRescan
    \/ RescanLock
    \/ TickEnd
    \/ SlaveRecheckMounts
    \/ SlaveRescan
    \/ ClockWrap

SpecTicks == InitTicks /\ [][NextTicks]_vars

\* the supervisor wakes up from thread_sleep: a second has passed
SecondPasses == time' = time + 1

\* C23: with master_update_interval = M >= 1, a tick that begins with no
\* rescan or recheck request since the last full refresh is a full refresh
\* exactly if it is the M-th tick after that refresh, and goes back to
\* sleep otherwise; a tick that finds rescan_relays set, with no recheck
\* request since the last full refresh, is a light rescan and leaves
\* interval as it was
C23_RefreshEveryMTicks ==
    [][SecondPasses =>
          /\ QuietSinceRefresh =>
                /\ since.ticks + 1 <= config.master_update_interval
                /\ sup_pc' = "config" <=> since.ticks + 1 = config.master_update_interval
                /\ sup_pc' # "config" => (sup_pc' = "loop" /\ interval' = since.ticks + 1)
          /\ (since.started /\ ~since.recheck /\ ~pending.recheck /\ rescan_relays # 0) =>
                /\ sup_pc' = "rescan"
                /\ interval' = interval]_vars

\* C23 witness: with master_update_interval = 2 a full refresh has begun
\* two ticks after the one before, with no request in between
C23_Witness ==
    /\ config.master_update_interval = 2
    /\ sup_pc = "config"
    /\ since.started
    /\ since.ticks = 0
    /\ since.gap = 2

(***************************************************************************)
(* streamlist_data on the bytes of the body (slave.c 638-695).  A byte is  *)
(* a one-character string, or one of CR, LF and NUL; the buffer of the     *)
(* master_conn_details is kept with its terminating NUL, and strchr and    *)
(* strlen stop at the first NUL as the C functions do.  A candidate is     *)
(* kept as its mount string.                                               *)
(***************************************************************************)
MaxBody == 4       \* longest body the master sends, in bytes

CR == "CR"
LF == "LF"
NUL == "NUL"

\* the C string that starts at buffer[pos]: the bytes before the next NUL
CString(buffer, pos) ==
    LET nul == {i \in pos..Len(buffer) : buffer[i] = NUL}
    IN  SubSeq(buffer, pos, Min(nul) - 1)

\* master_conn_details of a new streamlist thread (calloc, slave.c 767)
NewMaster == [buffer |-> <<>>, previous |-> 0, new_relays |-> <<>>]

\* slave.c 651-692: buf is buffer + pos - 1
RECURSIVE streamlist_data_loop(_, _, _, _)
streamlist_data_loop(master, buffer, pos, len) ==
    IF len = 0 THEN [master EXCEPT !.buffer = buffer]
    ELSE LET buf == CString(buffer, pos)
             eol == strchr(buf, LF)
         IN  IF eol # 0
             THEN LET offset == (eol - 1) + 1
                      line == SubSeq(buf, 1, eol - 1)
                      cr == strchr(line, CR)
                      mount == IF cr # 0 THEN SubSeq(line, 1, cr - 1) ELSE line
                      m1 == IF Len(mount) # 0
                            THEN [master EXCEPT !.new_relays = <<mount>> \o @]
                            ELSE master
                  IN  streamlist_data_loop(m1, buffer, pos + offset, len - offset)
             ELSE \* incomplete line, the rest may be in the next read
                  LET rest == Len(buf)
                  IN  [master EXCEPT !.buffer = buf \o SubSeq(buffer, rest + 1, Len(buffer)),
                                     !.previous = rest]

\* streamlist_data: one call of the write callback with the chunk ptr
streamlist_data_bytes(master, ptr) ==
    LET len == Len(ptr) + master.previous + 1
        buffer == SubSeq(master.buffer, 1, master.previous) \o ptr \o <<NUL>>
    IN  streamlist_data_loop(master, buffer, 1, len)

\* bytes of the bodies
BodyBytes == {"/", "a", CR, LF, NUL}

\* curl hands the next n bytes of the body to the write callback
StreamlistData(n) ==
    /\ call.name = "streamlist_data"
    /\ n \in 1..Len(call.rest)
    /\ call' = [call EXCEPT !.rest = SubSeq(@, n + 1, Len(@)),
                            !.chunks = @ + 1,
                            !.master = streamlist_data_bytes(@, SubSeq(call.rest, 1, n))]
    /\ UNCHANGED <<heap, relays, master_relays, config, rc, tableVars, runVars,
                   pending, since>>

InitChunks ==
    /\ heap = EmptyHeap
    /\ relays = <<>>
    /\ master_relays = <<>>
    /\ config = BaseConfig
    /\ rc = RcIdle
    /\ slaves = <<>>
    /\ slave_count = 0
    /\ InitRun
    /\ pending = NoPending
    /\ since = NoSince
    /\ \E body \in SeqsUpTo(BodyBytes, MaxBody) :
          call = [name |-> "streamlist_data", body |-> body, rest |-> body,
                  chunks |-> 0, master |-> NewMaster]

NextChunks == \E n \in 1..MaxBody : StreamlistData(n)

SpecChunks == InitChunks /\ [][NextChunks]_vars

\* the lines of a body that end in LF, without the LF, in order
RECURSIVE LinesOf(_)
LinesOf(body) ==
    LET eol == strchr(body, LF)
    IN  IF eol = 0 THEN <<>>
        ELSE <<SubSeq(body, 1, eol - 1)>> \o LinesOf(SubSeq(body, eol + 1, Len(body)))

\* a line of text: no NUL, and CR only as the last byte before the LF
TextLine(line) ==
    \A i \in 1..Len(line) : line[i] # NUL /\ (line[i] = CR => i = Len(line))

\* a line without its CR
Chomp(line) ==
    IF line # <<>> /\ line[Len(line)] = CR THEN SubSeq(line, 1, Len(line) - 1) ELSE line

\* the non-blank lines of a list, chomped, last line first (the order of
\* new_relays, where each candidate is put at the head)
RECURSIVE Candidates(_)
Candidates(lines) ==
    IF lines = <<>> THEN <<>>
    ELSE Candidates(Tail(lines))
         \o (IF Chomp(Head(lines)) # <<>> THEN <<Chomp(Head(lines))>> ELSE <<>>)

\* C24: when the whole body has been handed over, in whatever chunks, the
\* candidate list is the one a single call on the whole body makes; and for
\* a body of text lines it holds one candidate for each non-blank
\* LF-terminated line, with the line's mount string
C24_ChunkIndependent ==
    (call.name = "streamlist_data" /\ call.rest = <<>>) =>
        /\ call.master.new_relays = streamlist_data_bytes(NewMaster, call.body).new_relays
        /\ (\A i \in DOMAIN LinesOf(call.body) : TextLine(LinesOf(call.body)[i])) =>
              call.master.new_relays = Candidates(LinesOf(call.body))

(***************************************************************************)
(* A stream list transfer that fails (slave.c 732-746).                    *)
(***************************************************************************)
\* the streamlist thread f goes on after curl_easy_perform returned an error
TransferFailed(f) == fetch[f].pc = "commit" /\ fetch[f].result # "CURLE_OK"

\* the step tells the source of a relay to stop (slave.c 563) on behalf of f
StopsWorker(f) ==
    \E i \in (Len(ctx[f].log) + 1)..Len(ctx'[f].log) : ctx'[f].log[i][1] = "stop"

\* C25: a streamlist thread whose transfer failed, also after a 200 status
\* line and a part of the list, does not change global.master_relays and
\* does not stop a worker
C25_FailedFetchChangesNothing ==
    [][\A f \in FetchIds :
          /\ (fetch[f].pc = "fetching" /\ fetch'[f].pc = "none")
                => master_relays' = master_relays
          /\ (fetch[f].pc = "fetching" /\ TransferFailed(f)')
                => master_relays' = master_relays
          /\ TransferFailed(f) => ~StopsWorker(f)]_vars

====
